---- MODULE Spec2Model ----
(***************************************************************************)
(* Model of the Django Test Manager orchestration engine: the status       *)
(* store (TestStateManager), the runner and its output parser (TestRunner),*)
(* the watch engine (WatchModeManager) and the session history             *)
(* (TestHistoryManager).                                                   *)
(*                                                                         *)
(* Text is modelled as a sequence of one-character strings, so that the    *)
(* regular expressions and substring tests of the code are computed on the *)
(* characters themselves.  The escape character U+001B is written "ESC".   *)
(***************************************************************************)
EXTENDS Integers, Sequences, FiniteSets, TLC

(***************************************************************************)
(* Text primitives (JavaScript String / RegExp semantics)                  *)
(***************************************************************************)
Lower == {"a","b","c","d","e","f","g","h","i","j","k","l","m",
          "n","o","p","q","r","s","t","u","v","w","x","y","z"}
Upper == {"A","B","C","D","E","F","G","H","I","J","K","L","M",
          "N","O","P","Q","R","S","T","U","V","W","X","Y","Z"}
Digit == {"0","1","2","3","4","5","6","7","8","9"}
\* \w of the regular expressions
WordCh == Lower \cup Upper \cup Digit \cup {"_"}
\* [\w\.] of the test-start expression
PathCh == WordCh \cup {"."}
\* \s of the regular expressions
SpaceCh == {" ", "\t", "\r", "\n", "\f"}
\* line terminators, which `.` does not match
LineTerm == {"\n", "\r"}

\* s.substring(a-1, b) with 1-based inclusive bounds
Sub(s, a, b) == IF a > b THEN <<>> ELSE SubSeq(s, a, b)

\* does pat occur in s at position i (1-based)
MatchAt(s, i, pat) ==
    /\ i >= 1
    /\ i + Len(pat) - 1 <= Len(s)
    /\ \A k \in 1..Len(pat) : s[i + k - 1] = pat[k]

\* String.prototype.startsWith
StartsWith(s, pat) == MatchAt(s, 1, pat)

\* String.prototype.endsWith
EndsWith(s, pat) == MatchAt(s, Len(s) - Len(pat) + 1, pat)

\* String.prototype.includes
Includes(s, pat) == \E i \in 1..(Len(s) + 1) : MatchAt(s, i, pat)

\* the index of the first occurrence instead of the last
FirstIndexOf(s, c) ==
    IF \E i \in 1..Len(s) : s[i] = c
    THEN CHOOSE i \in 1..Len(s) : s[i] = c /\ \A j \in 1..(i - 1) : s[j] # c
    ELSE 0

\* String.prototype.lastIndexOf for a one-character pattern, 1-based, 0 if absent
LastIndexOf(s, c) ==
    IF \E i \in 1..Len(s) : s[i] = c
    THEN CHOOSE i \in 1..Len(s) : s[i] = c /\ \A j \in (i+1)..Len(s) : s[j] # c
    ELSE 0

\* first position at or after i whose character is outside class; Len(s)+1 if none
RECURSIVE RunEnd(_, _, _)
RunEnd(s, i, class) ==
    IF i > Len(s) \/ s[i] \notin class THEN i ELSE RunEnd(s, i + 1, class)

\* Array.prototype.join
RECURSIVE Join(_, _)
Join(parts, sep) ==
    IF Len(parts) = 0 THEN <<>>
    ELSE IF Len(parts) = 1 THEN parts[1]
    ELSE parts[1] \o sep \o Join(Tail(parts), sep)

\* String.prototype.indexOf(c, i-1) for a one-character pattern, 1-based, 0 if absent
RECURSIVE IndexFrom(_, _, _)
IndexFrom(s, c, i) ==
    IF i > Len(s) THEN 0 ELSE IF s[i] = c THEN i ELSE IndexFrom(s, c, i + 1)

\* String.prototype.split('\n')
RECURSIVE SplitLines(_)
SplitLines(s) ==
    LET j == IndexFrom(s, "\n", 1)
    IN  IF j = 0 THEN <<s>>
        ELSE <<Sub(s, 1, j - 1)>> \o SplitLines(Sub(s, j + 1, Len(s)))

(***************************************************************************)
(* The regular expressions of TestRunner.parseResults                      *)
(***************************************************************************)
\* end (index of the final m) of a match of /\u001b\[\d+m/ at i, 0 if none
AnsiEnd(s, i) ==
    IF MatchAt(s, i, <<"ESC", "[">>)
    THEN LET d == RunEnd(s, i + 2, Digit)
         IN  IF d > i + 2 /\ d <= Len(s) /\ s[d] = "m" THEN d ELSE 0
    ELSE 0

\* output.replace(/\u001b\[\d+m/g, '')
RECURSIVE StripAnsiFrom(_, _)
StripAnsiFrom(s, i) ==
    IF i > Len(s) THEN <<>>
    ELSE LET e == AnsiEnd(s, i)
         IN  IF e > 0 THEN StripAnsiFrom(s, e + 1)
             ELSE <<s[i]>> \o StripAnsiFrom(s, i + 1)

StripAnsi(s) == StripAnsiFrom(s, 1)

NoMatch == [found |-> FALSE]

\* a match of /(\w+)\s+\(([\w\.]+)\)/ starting exactly at i
TestStartAt(s, i) ==
    LET j == RunEnd(s, i, WordCh)
        k == RunEnd(s, j, SpaceCh)
        m == RunEnd(s, k + 1, PathCh)
    IN  IF /\ j > i
           /\ k > j
           /\ k <= Len(s)
           /\ s[k] = "("
           /\ m > k + 1
           /\ m <= Len(s)
           /\ s[m] = ")"
        THEN [found |-> TRUE, methodName |-> Sub(s, i, j - 1),
              pathInParens |-> Sub(s, k + 1, m - 1)]
        ELSE NoMatch

\* line.match(/(\w+)\s+\(([\w\.]+)\)/): the leftmost match
RECURSIVE TestStartFrom(_, _)
TestStartFrom(s, i) ==
    IF i > Len(s) THEN NoMatch
    ELSE LET r == TestStartAt(s, i)
         IN  IF r.found THEN r ELSE TestStartFrom(s, i + 1)

TestStartMatch(line) == TestStartFrom(line, 1)

ResultWords == << <<"o","k">>, <<"s","k","i","p","p","e","d">>,
                  <<"F","A","I","L">>, <<"E","R","R","O","R">> >>

\* a match of /\.\.\.\s+(ok|skipped|FAIL|ERROR)/ starting exactly at i
ResultAt(s, i) ==
    LET k == RunEnd(s, i + 3, SpaceCh)
    IN  IF /\ MatchAt(s, i, <<".", ".", ".">>)
           /\ k > i + 3
           /\ \E w \in 1..Len(ResultWords) : MatchAt(s, k, ResultWords[w])
        THEN [found |-> TRUE,
              result |-> ResultWords[CHOOSE w \in 1..Len(ResultWords) :
                                        MatchAt(s, k, ResultWords[w])]]
        ELSE NoMatch

\* line.match(/\.\.\.\s+(ok|skipped|FAIL|ERROR)/): the leftmost match
RECURSIVE ResultFrom(_, _)
ResultFrom(s, i) ==
    IF i > Len(s) THEN NoMatch
    ELSE LET r == ResultAt(s, i)
         IN  IF r.found THEN r ELSE ResultFrom(s, i + 1)

ResultMatch(line) == ResultFrom(line, 1)

\* a match of /(FAIL|ERROR):\s+(\w+)\s+\((.+)\)/ starting exactly at i;
\* the greedy .+ runs to the last ) before the next line terminator
SummaryAt(s, i) ==
    LET h == IF MatchAt(s, i, <<"F","A","I","L">>) THEN i + 4
             ELSE IF MatchAt(s, i, <<"E","R","R","O","R">>) THEN i + 5 ELSE 0
        a == RunEnd(s, h + 1, SpaceCh)
        j == RunEnd(s, a, WordCh)
        k == RunEnd(s, j, SpaceCh)
        e == RunEnd(s, k + 1, {s[q] : q \in 1..Len(s)} \ LineTerm)
        closers == {q \in (k + 2)..(e - 1) : s[q] = ")"}
    IN  IF /\ h > 0
           /\ h <= Len(s)
           /\ s[h] = ":"
           /\ a > h + 1
           /\ j > a
           /\ k > j
           /\ k <= Len(s)
           /\ s[k] = "("
           /\ closers # {}
        THEN LET r == CHOOSE q \in closers : \A q2 \in closers : q2 <= q
             IN  [found |-> TRUE, methodName |-> Sub(s, a, j - 1),
                  pathInParens |-> Sub(s, k + 1, r - 1)]
        ELSE NoMatch

\* line.match(/(FAIL|ERROR):\s+(\w+)\s+\((.+)\)/): the leftmost match
RECURSIVE SummaryFrom(_, _)
SummaryFrom(s, i) ==
    IF i > Len(s) THEN NoMatch
    ELSE LET r == SummaryAt(s, i)
         IN  IF r.found THEN r ELSE SummaryFrom(s, i + 1)

SummaryMatch(line) == SummaryFrom(line, 1)

(***************************************************************************)
(* TestStateManager: insertion-ordered maps (JavaScript Map)               *)
(***************************************************************************)
\* the TestStatus values the runner writes
Statuses == {"pending", "passed", "failed", "skipped", "unknown"}

\* Map.prototype.keys, in insertion order
MapKeys(m) == [i \in 1..Len(m) |-> m[i].key]

MapHas(m, k) == \E i \in 1..Len(m) : m[i].key = k

\* Map.prototype.get; "undefined" when the key is absent
MapGet(m, k) ==
    IF MapHas(m, k) THEN m[CHOOSE i \in 1..Len(m) : m[i].key = k].val ELSE "undefined"

\* Map.prototype.set: an existing key keeps its position
MapSet(m, k, v) ==
    IF MapHas(m, k)
    THEN [i \in 1..Len(m) |-> IF m[i].key = k THEN [key |-> k, val |-> v] ELSE m[i]]
    ELSE Append(m, [key |-> k, val |-> v])

\* TestStateManager.getStatus
getStatus(st, dottedPath) == MapGet(st, dottedPath)

\* TestStateManager.setStatus (the write; the notification is debouncedFire)
setStatus(st, dottedPath, status) == MapSet(st, dottedPath, status)

\* TestStateManager.getAllKeys
getAllKeys(st) == MapKeys(st)

\* TestStateManager.getFailedTests
\* the records that are not passed
getNotPassedTests(st) == SelectSeq(st, LAMBDA e : e.val # "passed")

getFailedTests(st) == SelectSeq(st, LAMBDA e : e.val = "failed")

(***************************************************************************)
(* TestRunner.parseResults                                                 *)
(***************************************************************************)
FailureText == "Test Failed. Check terminal for details."

\* `${pathInParens}.${methodName}` unless the path already ends with the name
FullPath(pathInParens, methodName) ==
    IF EndsWith(pathInParens, <<".">> \o methodName) \/ pathInParens = methodName
    THEN pathInParens
    ELSE pathInParens \o <<".">> \o methodName

\* 'passed' | 'failed' | 'skipped' of a result word
StatusOfResult(result) ==
    IF result = <<"s","k","i","p","p","e","d">> THEN "skipped"
    ELSE IF result = <<"F","A","I","L">> \/ result = <<"E","R","R","O","R">> THEN "failed"
    ELSE "passed"

\* the register after the test-start check of a line: <<>> (null) or <<path>>
StartRegister(reg, testStartMatch) ==
    IF testStartMatch.found
    THEN <<FullPath(testStartMatch.pathInParens, testStartMatch.methodName)>>
    ELSE reg

\* the body of lines.forEach: acc = [st, fm, reg], reg is <<>> (null) or <<path>>
ParseLine(acc, line) ==
    LET Classify(reg, resultMatch, summaryMatch) ==
            IF resultMatch.found /\ Len(reg) > 0
            THEN [st  |-> setStatus(acc.st, reg[1], StatusOfResult(resultMatch.result)),
                  fm  |-> IF StatusOfResult(resultMatch.result) = "failed"
                          THEN MapSet(acc.fm, reg[1], FailureText)
                          ELSE acc.fm,
                  reg |-> <<>>]
            ELSE IF summaryMatch.found
            THEN [st  |-> setStatus(acc.st,
                                    FullPath(summaryMatch.pathInParens, summaryMatch.methodName),
                                    "failed"),
                  fm  |-> acc.fm,
                  reg |-> reg]
            ELSE [st |-> acc.st, fm |-> acc.fm, reg |-> reg]
    IN  Classify(StartRegister(acc.reg, TestStartMatch(line)), ResultMatch(line),
                 SummaryMatch(line))

\* lines.forEach: the state after the last line
RECURSIVE ParseLines(_, _)
ParseLines(acc, lines) ==
    IF Len(lines) = 0 THEN acc
    ELSE ParseLines(ParseLine(acc, Head(lines)), Tail(lines))

FailuresMarker == <<"F","A","I","L","E","D"," ","(","f","a","i","l","u","r","e","s","=">>
ErrorsMarker   == <<"F","A","I","L","E","D"," ","(","e","r","r","o","r","s","=">>
OkMarker       == <<"O","K">>

\* the suite-level check on a node without children
LeafSummary(node, cleanOutput, st) ==
    IF Len(node.children) = 0
    THEN IF Includes(cleanOutput, FailuresMarker) \/ Includes(cleanOutput, ErrorsMarker)
         THEN IF Len(node.dottedPath) > 0 THEN setStatus(st, node.dottedPath, "failed") ELSE st
         ELSE IF Includes(cleanOutput, OkMarker)
         THEN IF Len(node.dottedPath) > 0 THEN setStatus(st, node.dottedPath, "passed") ELSE st
         ELSE st
    ELSE st

\* parseResults(node, output) from the state acc
parseResults(node, output, acc) ==
    LET Summed(cleanOutput, after) ==
            [st |-> LeafSummary(node, cleanOutput, after.st), fm |-> after.fm,
             reg |-> after.reg]
        Lines(cleanOutput) == Summed(cleanOutput, ParseLines(acc, SplitLines(cleanOutput)))
    IN  Lines(StripAnsi(output))

(***************************************************************************)
(* The discovered hierarchy the runner works on: one file a.py with the    *)
(* test class T and its methods t1 and t2.  A node is [dottedPath,         *)
(* children]; an absent children list is the empty list.                   *)
(***************************************************************************)
P_a  == <<"a">>
P_T  == <<"a", ".", "T">>
P_t1 == <<"a", ".", "T", ".", "t", "1">>
P_t2 == <<"a", ".", "T", ".", "t", "2">>

NodeM1   == [dottedPath |-> P_t1, children |-> <<>>]
NodeM2   == [dottedPath |-> P_t2, children |-> <<>>]
NodeT    == [dottedPath |-> P_T, children |-> <<NodeM1, NodeM2>>]
NodeFile == [dottedPath |-> P_a, children |-> <<NodeT>>]

\* TestTreeDataProvider.getChildren(): the root items
Roots == <<NodeFile>>

HierarchyNodes == {NodeFile, NodeT, NodeM1, NodeM2}

\* TestTreeDataProvider.findNode: <<node>> or <<>> (undefined)
findNode(dottedPath) ==
    IF \E n \in HierarchyNodes : n.dottedPath = dottedPath
    THEN <<CHOOSE n \in HierarchyNodes : n.dottedPath = dottedPath>>
    ELSE <<>>

\* the nodes callers hand to runInTerminal: the root node of Run All and the
\* nodes of code lenses and tree items (a class and a method)
RunArgs == {[dottedPath |-> d, children |-> <<>>] : d \in {<<>>, P_T, P_t2}}

\* statuses after discovery: structureTests registers the file nodes
DiscoveredStatuses == <<[key |-> P_a, val |-> "unknown"]>>

(***************************************************************************)
(* Configuration: the djangoTestManager settings the runner reads         *)
(***************************************************************************)
TestProfiles == [Default |-> <<"--keepdb", "--parallel">>,
                 Fast    |-> <<"--keepdb", "--failfast", "--parallel">>,
                 Clean   |-> <<"--noinput">>,
                 Verbose  |-> <<"--keepdb", "-v", "3">>,
                 Database |-> <<"--noinput", "--verbosity=2">>]

\* the configurations explored: the ad-hoc list may be empty, and the active
\* profile may name no profile
Configs == {[activeProfile |-> "Default", testArguments |-> <<>>],
            [activeProfile |-> "Fast",    testArguments |-> <<>>],
            [activeProfile |-> "Default", testArguments |-> <<"--failfast">>],
            [activeProfile |-> "Fast",    testArguments |-> <<"--keepdb">>],
            [activeProfile |-> "Gone",    testArguments |-> <<"--failfast">>],
            [activeProfile |-> "Gone",    testArguments |-> <<>>],
            [activeProfile |-> "Verbose",  testArguments |-> <<>>],
            [activeProfile |-> "Database", testArguments |-> <<>>]}

\* profiles[activeProfile]: <<list>> or <<>> (undefined)
ProfileOf(cfg) ==
    IF cfg.activeProfile \in DOMAIN TestProfiles
    THEN <<TestProfiles[cfg.activeProfile]>> ELSE <<>>

\* Array.prototype.includes
ArrIncludes(arr, x) == \E i \in 1..Len(arr) : arr[i] = x

\* the profile's list followed by the ad-hoc list
RawTestArgsMixed(cfg) ==
    (IF Len(ProfileOf(cfg)) > 0 THEN ProfileOf(cfg)[1] ELSE <<>>) \o cfg.testArguments

\* buildTestCommand: the argument list chosen, before filtering
RawTestArgs(cfg) ==
    IF Len(cfg.testArguments) > 0 THEN cfg.testArguments
    ELSE IF Len(ProfileOf(cfg)) > 0 THEN ProfileOf(cfg)[1] ELSE <<>>

\* buildTestCommand: the slots of the default command template
\* ${pythonPath} ${managePyPath} test ${testPath} ${testArguments}
buildTestCommand(testPaths, cfg) ==
    LET kept == SelectSeq(RawTestArgs(cfg), LAMBDA a : a # "--buffer" /\ a # "-b")
        verb == IF ~ArrIncludes(kept, "-v") /\ ~ArrIncludes(kept, "--verbose")
                THEN kept \o <<"-v", "2">> ELSE kept
        args == IF ~ArrIncludes(verb, "--noinput") /\ ~ArrIncludes(verb, "--no-input")
                THEN Append(verb, "--noinput") ELSE verb
    IN  [pythonPath |-> "python3", managePyPath |-> "manage.py",
         testPath |-> testPaths, testArguments |-> args]

\* finalizeNodeStatus: its own reading of the configuration
IsFailFast(cfg) ==
    LET args == IF Len(ProfileOf(cfg)) > 0 THEN ProfileOf(cfg)[1] ELSE cfg.testArguments
    IN  ArrIncludes(args, "--failfast")

(***************************************************************************)
(* TestRunner: status reset and finalization                               *)
(***************************************************************************)
\* a reset of the node alone
setPendingNode(n, st) ==
    IF Len(n.dottedPath) > 0 THEN setStatus(st, n.dottedPath, "pending") ELSE st

RECURSIVE setPendingRecursive(_, _)
RECURSIVE SetPendingEach(_, _)
\* setPendingRecursive of runInTerminal: the node, then its children
setPendingRecursive(n, st) ==
    SetPendingEach(n.children,
                   IF Len(n.dottedPath) > 0 THEN setStatus(st, n.dottedPath, "pending") ELSE st)
SetPendingEach(nodes, st) ==
    IF Len(nodes) = 0 THEN st
    ELSE SetPendingEach(Tail(nodes), setPendingRecursive(Head(nodes), st))

\* failedTests.forEach(path => setStatus(path, 'pending'))
RECURSIVE SetPendingPaths(_, _)
SetPendingPaths(paths, st) ==
    IF Len(paths) = 0 THEN st
    ELSE SetPendingPaths(Tail(paths), setStatus(st, Head(paths), "pending"))

\* FinalStatus with the exit-code test inverted
FinalStatusInverted(success, cfg) ==
    IF ~success THEN "passed" ELSE IF IsFailFast(cfg) THEN "skipped" ELSE "unknown"

\* the status finalizeNodeStatus writes for a node that is still pending
FinalStatus(success, cfg) ==
    IF success THEN "passed" ELSE IF IsFailFast(cfg) THEN "skipped" ELSE "unknown"

RECURSIVE finalizeNodeStatus(_, _, _, _)
RECURSIVE FinalizeEach(_, _, _, _)
\* finalizeNodeStatus: the children first, then the node itself
finalizeNodeStatus(node, success, cfg, st) ==
    LET st1 == FinalizeEach(node.children, success, cfg, st)
    IN  IF Len(node.dottedPath) > 0 /\ getStatus(st1, node.dottedPath) = "pending"
        THEN setStatus(st1, node.dottedPath, FinalStatus(success, cfg))
        ELSE st1
FinalizeEach(nodes, success, cfg, st) ==
    IF Len(nodes) = 0 THEN st
    ELSE FinalizeEach(Tail(nodes), success, cfg, finalizeNodeStatus(Head(nodes), success, cfg, st))

\* SkipPending without the test for pending
SkipEvery(keys, st) == [i \in 1..Len(st) |-> [key |-> st[i].key, val |-> "skipped"]]

\* a cancel that marks the pending records aborted
AbortPending(keys, st) ==
    [i \in 1..Len(st) |->
        [key |-> st[i].key, val |-> IF st[i].val = "pending" THEN "aborted" ELSE st[i].val]]

\* cancel: every pending record becomes skipped
RECURSIVE SkipPending(_, _)
SkipPending(keys, st) ==
    IF Len(keys) = 0 THEN st
    ELSE SkipPending(Tail(keys),
                     IF getStatus(st, Head(keys)) = "pending"
                     THEN setStatus(st, Head(keys), "skipped") ELSE st)

(***************************************************************************)
(* Transcript text the test process may write                              *)
(***************************************************************************)
NL == <<"\n">>
W_t1      == <<"t", "1">>
W_t2      == <<"t", "2">>
W_ok      == <<"o", "k">>
W_skipped == <<"s", "k", "i", "p", "p", "e", "d">>
W_FAIL    == <<"F", "A", "I", "L">>
W_ERROR   == <<"E", "R", "R", "O", "R">>

\* `<name> (<dotted.path>) ... <marker>`
TranscriptLine(name, path, marker) ==
    name \o <<" ", "(">> \o path \o <<")", " ", ".", ".", ".", " ">> \o marker

\* `FAIL: <name> (<path>)` or `ERROR: <name> (<path>)`
SummaryLine(kind, name, path) ==
    kind \o <<":", " ">> \o name \o <<" ", "(">> \o path \o <<")">>

\* a migration progress line of the runner at verbosity 2: `m... OK`
MigrationLine == <<"m", ".", ".", ".", " ", "O", "K">>
\* a test-start line whose result follows on the next line (docstring form)
StartOnlyLine == W_t1 \o <<" ", "(">> \o P_T \o <<")">>
\* the result line of the docstring form: `doc ... ok`
ResultOnlyLine == <<"d", "o", "c", " ", ".", ".", ".", " ">> \o W_ok
\* the line that precedes the suite-level line: `Ran 1 test`
RanLine == <<"R", "a", "n", " ", "1", " ", "t", "e", "s", "t">>
\* the suite-level lines
SuiteOk     == <<"O", "K">>
SuiteFailed == FailuresMarker \o <<"1", ")">>
\* a coloured marker: ESC[31mFAIL ESC[0m
ColouredFail == <<"ESC", "[", "3", "1", "m">> \o W_FAIL \o <<"ESC", "[", "0", "m">>

Names   == {W_t1, W_t2}
Markers == {W_ok, W_skipped, W_FAIL, W_ERROR}

\* the chunks onData may deliver
Chunks == {
    TranscriptLine(W_t1, P_T, W_ok) \o NL,
    TranscriptLine(W_t2, P_T, W_FAIL) \o NL,
    TranscriptLine(W_t2, P_t2, W_skipped) \o NL,
    TranscriptLine(W_t1, P_T, ColouredFail) \o NL,
    SummaryLine(W_ERROR, W_t1, P_T) \o NL,
    SummaryLine(W_FAIL, W_t2, P_t2) \o NL,
    StartOnlyLine \o NL,
    ResultOnlyLine \o NL,
    MigrationLine \o NL,
    RanLine \o NL,
    SuiteOk \o NL,
    SuiteFailed \o NL,
    TranscriptLine(W_t2, P_T, W_ERROR) }

(***************************************************************************)
(* Bounds                                                                  *)
(***************************************************************************)
\* runs started in the run-lifecycle specification
MaxRuns    == 2
\* chunks delivered by onData
MaxChunks  == 1
\* cancel() calls
MaxCancels == 1
\* runs started in the cancellation specification
MaxCancelRuns == 1

(***************************************************************************)
(* State                                                                   *)
(***************************************************************************)
VARIABLES
    statuses,         \* TestStateManager.statuses
    failureMessages,  \* TestStateManager.failureMessages
    parsingBuffer,    \* TestRunner.parsingBuffer
    parsingTestPath,  \* TestRunner.parsingTestPath: <<>> (null) or <<path>>
    isParsing,        \* TestRunner.isParsing
    parsingInterval,  \* TestRunner.parsingInterval: the 200 ms tick and its node
    djangoTerminal,   \* TestRunner.djangoTerminal is defined
    terminal,         \* TestRunner.terminal is defined
    isRunning,        \* context key djangoTestManager.isRunning
    config,           \* the workspace configuration
    procs,            \* the processes started on the channel and not yet exited
    nruns,            \* runs started so far
    fed,              \* chunks delivered so far
    cancelTimers,     \* armed 500 ms timers of cancel
    sigints,          \* SIGINT signals sent to the channel
    calls,            \* the calls of runInTerminal and run that returned to the event loop
                      \* and have not finished, in the order they were made
    last              \* the last runner operation and the status snapshot it needs

VARIABLES
    watcher,          \* WatchModeManager.watcher is installed
    isEnabled,        \* WatchModeManager.isEnabled
    debounceTimer,    \* WatchModeManager.debounceTimer is armed
    changedFiles,     \* WatchModeManager.changedFiles, in insertion order
    runAffectedOnly,  \* setting watchRunAffectedOnly
    batches,          \* drained batches whose runTestsForChangedFiles is in flight
    windowEvents,     \* accepted change events since the timer last fired
    nevents,          \* change events delivered so far
    watchLast         \* the last finished batch

VARIABLES
    sessions,         \* TestHistoryManager.sessions, newest first
    currentSession,   \* TestHistoryManager.currentSession: <<>> (null) or <<session>>
    stored,           \* globalState key testHistory: <<>> (absent) or <<list>>
    historyMaxSessions, \* setting historyMaxSessions
    constructed,      \* TestHistoryManager.instance is set: the constructor returned
    now,              \* the wall clock, Date.now()
    nextId,           \* source of generateId
    nrecorded,        \* recordTest calls so far
    nsealed,          \* endSession calls that sealed a session
    flakiness         \* the getTestFlakiness call of the last step and its result

runnerVars == <<statuses, failureMessages, parsingBuffer, parsingTestPath, isParsing,
                parsingInterval, djangoTerminal, terminal, isRunning, config, procs,
                nruns, fed, cancelTimers, sigints, calls, last>>

watchVars == <<watcher, isEnabled, debounceTimer, changedFiles, runAffectedOnly, batches,
               windowEvents, nevents, watchLast>>

histVars == <<sessions, currentSession, stored, historyMaxSessions, constructed, now, nextId,
              nrecorded, nsealed, flakiness>>

VARIABLES
    fsFiles,          \* the files of the workspace: path -> [present, text]
    fileNodes,        \* TestDiscovery.fileNodes, in insertion order
    dottedPathCache,  \* TestDiscovery.dottedPathCache
    hierarchy,        \* the roots returned by the last discovery operation
    discPrev,         \* the discovery operation that returned last and what it read
    discLast,         \* the last step of discovery and the statuses before it
    ndisc,            \* discovery operations that returned so far
    scans,            \* discover() calls suspended, in the order they were made: [await,
                      \* files, served, results, changed, overlapped], await
                      \* "findFiles" or "reads", files the answer of findFiles,
                      \* served[j] <<>> until readFile of files[j] is served, then
                      \* <<file>>, results[j] <<>> until parseFile of files[j] returns,
                      \* then <<[content, node]>>, changed and overlapped as in ReadOf
    reading,          \* parseFile calls of updateFile and of updateDecorations that
                      \* have not returned to their caller, in the order they were
                      \* made: [uri, content, call, result], content <<>> until the
                      \* read is served, then <<file>>, call "updateFile" or
                      \* "parseFile", result <<>> until parseFile returns, then
                      \* <<[node]>> until the caller resumes
    nenv              \* file edits, status writes and clears between discoveries so far

\* The specifications of runs and of discovery follow the maps of the
\* TestStateManager; the timer of its change notification is followed in the
\* specification of notifications.
VARIABLES
    fireTimeout,      \* TestStateManager.fireTimeout is defined
    fireTimers,       \* timers of debouncedFire started and neither fired nor cleared
    fired,            \* _onDidChangeStatus.fire() calls so far
    unnotified,       \* setStatus and setStatusBatch calls since the last notification
    nnotifywrites,    \* setStatus and setStatusBatch calls so far
    nflushes,         \* flushChanges and clear calls so far
    notifyLast        \* the last operation and the counts before it

\* The watcher of activate that keeps the hierarchy up to date
VARIABLES
    updateTimeout,    \* timeout of debouncedUpdate: <<>> (none) or <<uri>>, the armed call
    unserved,         \* files with a create or change event and no updateFile since
    deleted,          \* files whose last watcher event is a delete event
    gone,             \* files deleted whose delete event the watcher has not delivered
    nwatch            \* watcher and editor events delivered so far

autoVars == <<updateTimeout, unserved, deleted, gone, nwatch>>

discVars == <<fsFiles, fileNodes, dottedPathCache, hierarchy, discPrev, discLast, ndisc,
              scans, reading, nenv, autoVars>>

notifyVars == <<fireTimeout, fireTimers, fired, unnotified, nnotifywrites, nflushes,
                notifyLast>>

vars == <<runnerVars, watchVars, histVars, discVars, notifyVars>>

NoNode == [dottedPath |-> <<>>, children |-> <<>>]

\* the record kept in last
\* snap: the statuses before the reset of a run, before cancel, or between the
\* final parse and the finalization of an exit; text: the complete lines handed
\* to parseResults
Op(op, run, node, code, snap, text, pending) ==
    [op |-> op, run |-> run, node |-> node, code |-> code, snap |-> snap,
     text |-> text, pending |-> pending]

InitRunnerFrom(configs, registered) ==
    /\ statuses = registered
    /\ failureMessages = <<>>
    /\ parsingBuffer = <<>>
    /\ parsingTestPath = <<>>
    /\ isParsing = FALSE
    /\ parsingInterval = [active |-> FALSE, node |-> NoNode]
    /\ djangoTerminal = FALSE
    /\ terminal = FALSE
    /\ isRunning = FALSE
    /\ config \in configs
    /\ procs = {}
    /\ nruns = 0
    /\ fed = 0
    /\ cancelTimers = 0
    /\ sigints = 0
    /\ calls = <<>>
    /\ last = Op("init", 0, NoNode, 0, <<>>, <<>>, {})

\* the state after construction and the discovery of the hierarchy Roots
InitRunner(configs) == InitRunnerFrom(configs, DiscoveredStatuses)

(***************************************************************************)
(* TestRunner operations                                                   *)
(***************************************************************************)
\* the identifiers of a node and its descendants
RECURSIVE NodeIds(_)
NodeIds(n) ==
    (IF Len(n.dottedPath) > 0 THEN {n.dottedPath} ELSE {})
        \cup UNION {NodeIds(n.children[i]) : i \in 1..Len(n.children)}

\* Map keys as a set
KeySet(m) == {m[i].key : i \in 1..Len(m)}

\* an entry of calls
Call(op, node) == [op |-> op, node |-> node]

\* a sequence without its element at position i
RemoveAt(seq, i) == Sub(seq, 1, i - 1) \o Sub(seq, i + 1, Len(seq))

\* the calls of runInTerminal among calls
Awaiting == SelectSeq(calls, LAMBDA c : c.op = "runInTerminal")

\* executeCommandInTerminal(cmd, nodeToWatch), entered after the statuses were
\* reset to st; resetIds are the identifiers the caller set to pending
executeCommandInTerminal(cmd, nodeToWatch, st, resetIds) ==
    /\ isRunning' = TRUE
    /\ djangoTerminal' = TRUE
    /\ terminal' = TRUE
    /\ parsingBuffer' = <<>>
    /\ parsingTestPath' = <<>>
    /\ parsingInterval' = [active |-> TRUE, node |-> nodeToWatch]
    /\ nruns' = nruns + 1
    /\ procs' = procs \cup {[run |-> nruns + 1, cmd |-> cmd, node |-> nodeToWatch,
                             pending |-> resetIds]}
    /\ statuses' = st
    /\ UNCHANGED <<failureMessages, isParsing, config, fed, cancelTimers, sigints>>

\* runInTerminal(node) up to its await of getChildren() or findNode(): the
\* parsing state is reset and the call returns to the event loop
runInTerminal(node) ==
    /\ parsingBuffer' = <<>>
    /\ parsingTestPath' = <<>>
    /\ last' = Op("enter", 0, node, 0, <<>>, <<>>, {})
    /\ UNCHANGED <<statuses, failureMessages, isParsing, parsingInterval, djangoTerminal,
                   terminal, isRunning, config, procs, nruns, fed, cancelTimers, sigints>>

\* runInTerminal(node) from the answer of getChildren() or findNode() on: the
\* statuses are reset to pending and the command is handed to the channel
runInTerminalResumed(node) ==
    LET testPath     == node.dottedPath
        realNode     == findNode(node.dottedPath)
        nodeToUpdate == IF Len(realNode) > 0 THEN realNode[1] ELSE node
        effective    == IF Len(node.dottedPath) = 0
                        THEN [dottedPath |-> <<>>, children |-> Roots]
                        ELSE nodeToUpdate
        st           == IF Len(node.dottedPath) = 0
                        THEN SetPendingEach(Roots, statuses)
                        ELSE setPendingRecursive(nodeToUpdate, statuses)
    IN  /\ executeCommandInTerminal(buildTestCommand(testPath, config), effective, st,
                                    NodeIds(effective))
        /\ last' = Op("run", nruns + 1, effective, 0, statuses, <<>>, NodeIds(effective))

\* a command calls runInTerminal(node), at most bound calls and runs in all
CallRunInTerminal(bound) ==
    /\ nruns + Len(Awaiting) < bound
    /\ \E node \in RunArgs :
          /\ runInTerminal(node)
          /\ calls' = Append(calls, Call("runInTerminal", node))
    /\ UNCHANGED <<watchVars, histVars, discVars, notifyVars>>

RunInTerminal == CallRunInTerminal(MaxRuns)

\* the tree provider answers a call of runInTerminal made by a command
RunInTerminalResumes ==
    /\ \E i \in 1..Len(calls) :
          /\ calls[i].op = "runInTerminal"
          /\ runInTerminalResumed(calls[i].node)
          /\ calls' = RemoveAt(calls, i)
    /\ UNCHANGED <<watchVars, histVars, discVars, notifyVars>>

\* runFailedTests() with at least one failed test
runFailedTests ==
    LET failedTests == MapKeys(getFailedTests(statuses))
        st          == SetPendingPaths(failedTests, statuses)
        ids         == {failedTests[i] : i \in 1..Len(failedTests)}
    IN  /\ Len(failedTests) > 0
        /\ executeCommandInTerminal(buildTestCommand(Join(failedTests, <<" ">>), config),
                                    [dottedPath |-> <<>>, children |-> <<>>], st, ids)
        /\ last' = Op("runFailed", nruns + 1, NoNode, 0, statuses, <<>>, ids)
        /\ UNCHANGED calls

RunFailedTests ==
    /\ nruns + Len(Awaiting) < MaxRuns
    /\ runFailedTests
    /\ UNCHANGED <<watchVars, histVars, discVars, notifyVars>>

\* run(node) up to the callback of child_process.exec: the node handed over and
\* its descendants are set to pending and the command is executed; a node
\* without a dotted path is rejected with an error message
run(node) ==
    /\ Len(node.dottedPath) > 0
    /\ statuses' = setPendingRecursive(node, statuses)
    /\ calls' = Append(calls, Call("run", node))
    /\ last' = Op("exec", 0, node, 0, statuses, <<>>, NodeIds(node))
    /\ UNCHANGED <<failureMessages, parsingBuffer, parsingTestPath, isParsing,
                   parsingInterval, djangoTerminal, terminal, isRunning, config, procs,
                   nruns, fed, cancelTimers, sigints>>

\* the callback of child_process.exec of a call of run: unless the progress
\* notification was cancelled, stdout + stderr is parsed as one text
execDone(i, cancelled, output) ==
    /\ calls[i].op = "run"
    /\ calls' = RemoveAt(calls, i)
    /\ IF cancelled
       THEN /\ last' = Op("execCancelled", 0, calls[i].node, 0, statuses, <<>>, {})
            /\ UNCHANGED <<statuses, failureMessages, parsingTestPath>>
       ELSE \E r \in {parseResults(calls[i].node, output,
                                   [st |-> statuses, fm |-> failureMessages,
                                    reg |-> parsingTestPath])} :
                /\ statuses' = r.st
                /\ failureMessages' = r.fm
                /\ parsingTestPath' = r.reg
                /\ last' = Op("execDone", 0, calls[i].node, 0, statuses, output, {})
    /\ UNCHANGED <<parsingBuffer, isParsing, parsingInterval, djangoTerminal, terminal,
                   isRunning, config, procs, nruns, fed, cancelTimers, sigints>>

\* the onData callback of runCommand: the chunk is appended to the buffer
onData(chunks, bound) ==
    /\ fed < bound
    /\ procs # {}
    /\ \E chunk \in chunks : parsingBuffer' = parsingBuffer \o chunk
    /\ last' = Op("data", 0, NoNode, 0, <<>>, <<>>, {})
    /\ fed' = fed + 1
    /\ UNCHANGED <<statuses, failureMessages, parsingTestPath, isParsing, parsingInterval,
                   djangoTerminal, terminal, isRunning, config, procs, nruns,
                   cancelTimers, sigints,
                   calls>>
    /\ UNCHANGED <<watchVars, histVars, discVars, notifyVars>>

\* processParsingBuffer(nodeToWatch) from the state [buf, st, fm, reg]:
\* the complete lines are cut off the buffer and parsed
processParsingBuffer(nodeToWatch, parsing, buf, st, fm, reg) ==
    LET Parsed(completeLines, rest, r) ==
            [buf |-> rest, st |-> r.st, fm |-> r.fm, reg |-> r.reg, text |-> completeLines]
        Complete(completeLines, rest) ==
            Parsed(completeLines, rest,
                   parseResults(nodeToWatch, completeLines, [st |-> st, fm |-> fm, reg |-> reg]))
        Cut(lastNewlineIndex) ==
            IF parsing \/ Len(buf) = 0 \/ lastNewlineIndex = 0
            THEN [buf |-> buf, st |-> st, fm |-> fm, reg |-> reg, text |-> <<>>]
            ELSE Complete(Sub(buf, 1, lastNewlineIndex),
                          Sub(buf, lastNewlineIndex + 1, Len(buf)))
    IN  Cut(LastIndexOf(buf, "\n"))

\* the 200 ms parsing tick
Tick ==
    /\ parsingInterval.active
    /\ ~isParsing
    /\ Len(parsingBuffer) > 0
    /\ \E r \in {processParsingBuffer(parsingInterval.node, isParsing, parsingBuffer,
                                        statuses, failureMessages, parsingTestPath)} :
           /\ parsingBuffer' = r.buf
           /\ statuses' = r.st
           /\ failureMessages' = r.fm
           /\ parsingTestPath' = r.reg
           /\ last' = Op("tick", 0, parsingInterval.node, 0, <<>>, r.text, {})
    /\ UNCHANGED <<isParsing, parsingInterval, djangoTerminal, terminal, isRunning,
                   config, procs, nruns, fed, cancelTimers, sigints,
                   calls>>
    /\ UNCHANGED <<watchVars, histVars, discVars, notifyVars>>

\* the onExit callback of runCommand
OnExit ==
    \E p \in procs, code \in {0, 1} :
        \E r \in {processParsingBuffer(p.node, FALSE, parsingBuffer, statuses,
                                       failureMessages, parsingTestPath)} :
            /\ isParsing' = FALSE
            /\ parsingInterval' = [parsingInterval EXCEPT !.active = FALSE]
            /\ parsingBuffer' = r.buf
            /\ failureMessages' = r.fm
            /\ parsingTestPath' = r.reg
            /\ statuses' = finalizeNodeStatus(p.node, code = 0, config, r.st)
            /\ isRunning' = FALSE
            /\ procs' = procs \ {p}
            /\ last' = Op("exit", p.run, p.node, code, r.st, r.text, p.pending)
            /\ UNCHANGED <<djangoTerminal, terminal, config, nruns, fed, cancelTimers,
                           sigints,
                   calls>>
            /\ UNCHANGED <<watchVars, histVars, discVars, notifyVars>>

\* cancel() while the channel exists
Cancel ==
    /\ djangoTerminal
    /\ sigints < MaxCancels
    /\ sigints' = sigints + 1
    /\ cancelTimers' = cancelTimers + 1
    /\ statuses' = SkipPending(getAllKeys(statuses), statuses)
    /\ isRunning' = FALSE
    /\ last' = Op("cancel", 0, NoNode, 0, statuses, <<>>, UNION {p.pending : p \in procs})
    /\ UNCHANGED <<failureMessages, parsingBuffer, parsingTestPath, isParsing,
                   parsingInterval, djangoTerminal, terminal, config, procs, nruns, fed,
                   calls>>
    /\ UNCHANGED <<watchVars, histVars, discVars, notifyVars>>

\* the 500 ms timer of cancel: a second SIGINT if still parsing
CancelRetry ==
    /\ cancelTimers > 0
    /\ cancelTimers' = cancelTimers - 1
    /\ sigints' = IF isParsing /\ djangoTerminal THEN sigints + 1 ELSE sigints
    /\ last' = Op("cancelRetry", 0, NoNode, 0, <<>>, <<>>, {})
    /\ UNCHANGED <<statuses, failureMessages, parsingBuffer, parsingTestPath, isParsing,
                   parsingInterval, djangoTerminal, terminal, isRunning, config, procs,
                   nruns, fed,
                   calls>>
    /\ UNCHANGED <<watchVars, histVars, discVars, notifyVars>>

\* window.onDidCloseTerminal for the runner's terminal
CloseTerminal ==
    /\ terminal
    /\ terminal' = FALSE
    /\ djangoTerminal' = FALSE
    /\ last' = Op("close", 0, NoNode, 0, <<>>, <<>>, {})
    /\ UNCHANGED <<statuses, failureMessages, parsingBuffer, parsingTestPath, isParsing,
                   parsingInterval, isRunning, config, procs, nruns, fed, cancelTimers,
                   sigints,
                   calls>>
    /\ UNCHANGED <<watchVars, histVars, discVars, notifyVars>>

\* calls of run in flight at a time
MaxExecs == 1

\* the nodes handed to run: a class with its methods
ExecArgs == {NodeT}

\* a command calls run(node)
Run ==
    /\ Len(SelectSeq(calls, LAMBDA c : c.op = "run")) < MaxExecs
    /\ \E node \in ExecArgs : run(node)
    /\ UNCHANGED <<watchVars, histVars, discVars, notifyVars>>

\* the chunks of the run-lifecycle specification: one passing test, one failing
\* test, two failing tests
RunChunks == {TranscriptLine(W_t1, P_T, W_ok) \o NL, TranscriptLine(W_t2, P_T, W_FAIL) \o NL,
              TranscriptLine(W_t1, P_T, W_FAIL) \o NL \o TranscriptLine(W_t2, P_T, W_FAIL) \o NL}

OnData == onData(RunChunks, MaxChunks)

\* the outputs of the processes of run: one test passes and one fails
ExecOutputs == {TranscriptLine(W_t1, P_T, W_ok) \o NL \o TranscriptLine(W_t2, P_T, W_FAIL) \o NL}

\* the process of a call of run ends, or the progress notification is cancelled
ExecDone ==
    /\ \E i \in 1..Len(calls), cancelled \in BOOLEAN, output \in ExecOutputs :
          execDone(i, cancelled, output)
    /\ UNCHANGED <<watchVars, histVars, discVars, notifyVars>>


(***************************************************************************)
(* WatchModeManager: paths and the companion search                        *)
(***************************************************************************)
\* String.prototype.split(c) for a one-character separator
RECURSIVE SplitOn(_, _)
SplitOn(s, c) ==
    LET j == IndexFrom(s, c, 1)
    IN  IF j = 0 THEN <<s>>
        ELSE <<Sub(s, 1, j - 1)>> \o SplitOn(Sub(s, j + 1, Len(s)), c)

\* path.basename
Basename(p) == Sub(p, LastIndexOf(p, "/") + 1, Len(p))

\* path.dirname
Dirname(p) == Sub(p, 1, LastIndexOf(p, "/") - 1)

\* the segments of an absolute path
Segments(p) == SelectSeq(SplitOn(p, "/"), LAMBDA seg : Len(seg) > 0)

\* length of the longest common prefix of two segment lists
RECURSIVE CommonLen(_, _)
CommonLen(a, b) ==
    IF Len(a) = 0 \/ Len(b) = 0 \/ Head(a) # Head(b) THEN 0
    ELSE 1 + CommonLen(Tail(a), Tail(b))

\* path.relative(from, to) for absolute paths
Relative(from, to) ==
    LET fs == Segments(from)
        ts == Segments(to)
        c  == CommonLen(fs, ts)
    IN  Join([i \in 1..(Len(fs) - c) |-> <<".", ".">>] \o Sub(ts, c + 1, Len(ts)), <<"/">>)

\* String.prototype.replace(pat, '') for a string pattern: the first occurrence
RemoveFirst(s, pat) ==
    IF Includes(s, pat)
    THEN LET i == CHOOSE k \in 1..Len(s) :
                      MatchAt(s, k, pat) /\ \A j \in 1..(k - 1) : ~MatchAt(s, j, pat)
         IN  Sub(s, 1, i - 1) \o Sub(s, i + Len(pat), Len(s))
    ELSE s

S_py == <<".", "p", "y">>

\* relativePath.replace(/\.py$/, '').replace(/\//g, '.').replace(/\\/g, '.')
DottedOf(relativePath) ==
    LET stem == IF EndsWith(relativePath, S_py)
                THEN Sub(relativePath, 1, Len(relativePath) - 3) ELSE relativePath
    IN  [i \in 1..Len(stem) |-> IF stem[i] = "/" \/ stem[i] = "\\" THEN "." ELSE stem[i]]

WorkspaceRoot == <<"/", "w">>

ExcludePatterns == {
    <<"_","_","p","y","c","a","c","h","e","_","_">>,
    <<".","v","e","n","v">>,
    <<"v","e","n","v">>,
    <<".","g","i","t">>,
    <<"m","i","g","r","a","t","i","o","n","s">>,
    <<".","p","y","c">>,
    <<"_","_","i","n","i","t","_","_",".","p","y">> }

\* WatchModeManager.isExcluded
isExcluded(relativePath) == \E pattern \in ExcludePatterns : Includes(relativePath, pattern)

S_test_   == <<"t","e","s","t","_">>
S__test   == <<"_","t","e","s","t">>
S_testsPy == <<"t","e","s","t","s",".","p","y">>

\* runAffectedTests: the file is itself a test file
IsTestFileName(fileName) ==
    StartsWith(fileName, S_test_) \/ Includes(fileName, S__test) \/ fileName = S_testsPy

\* runAffectedTests: the names a companion test file may have
testFileNames(fileName) ==
    LET fileNameNoExt == RemoveFirst(fileName, S_py)
    IN  {S_test_ \o fileNameNoExt \o S_py, fileNameNoExt \o S__test \o S_py, S_testsPy}

\* the files of the workspace
F_test_x == <<"/","w","/","a","/","t","e","s","t","_","x",".","p","y">>
F_y_test == <<"/","w","/","b","/","y","_","t","e","s","t",".","p","y">>
F_test_q == <<"/","w","/","c","/","t","e","s","t","_","q",".","p","y">>
F_x      == <<"/","w","/","a","/","x",".","p","y">>
F_z      == <<"/","w","/","c","/","z",".","p","y">>
F_init   == <<"/","w","/","a","/","_","_","i","n","i","t","_","_",".","p","y">>
F_x_test == <<"/","w","/","x","_","t","e","s","t",".","p","y">>

WorkspaceFiles == {F_test_x, F_y_test, F_test_q, F_x, F_z, F_init, F_x_test}

\* the files change events are delivered for
EventFiles == {F_test_x, F_y_test, F_test_q, F_x, F_z, F_init}

\* workspace.findFiles(`**/{names}`): the matching files (at most 10, in no
\* particular order)
findFiles(names) == {f \in WorkspaceFiles : Basename(f) \in names}

\* the candidates that may come first after the sort by relative-path length
ClosestTestFiles(filePath) ==
    LET dirPath   == Dirname(filePath)
        testFiles == findFiles(testFileNames(Basename(filePath)))
    IN  {a \in testFiles :
            \A b \in testFiles : Len(Relative(dirPath, a)) <= Len(Relative(dirPath, b))}

\* the node runAffectedTests builds for a test file
FileNode(testFile) ==
    [dottedPath |-> DottedOf(Relative(WorkspaceRoot, testFile)), children |-> <<>>]

(***************************************************************************)
(* WatchModeManager operations                                             *)
(***************************************************************************)
\* change events delivered to the watcher
MaxEvents == 3

NoBatch == [op |-> "none", events |-> 0, files |-> <<>>, runs |-> 0]

InitWatch(affected) ==
    /\ watcher = FALSE
    /\ isEnabled = FALSE
    /\ debounceTimer = FALSE
    /\ changedFiles = <<>>
    /\ runAffectedOnly \in affected
    /\ batches = <<>>
    /\ windowEvents = 0
    /\ nevents = 0
    /\ watchLast = NoBatch

\* enable()
enable ==
    /\ ~isEnabled
    /\ watcher' = TRUE
    /\ isEnabled' = TRUE
    /\ UNCHANGED <<debounceTimer, changedFiles, runAffectedOnly, batches, windowEvents,
                   nevents, watchLast>>

\* a disable() that leaves the changed files and the timer
disableKeepPending ==
    /\ isEnabled
    /\ watcher' = FALSE
    /\ isEnabled' = FALSE
    /\ UNCHANGED <<debounceTimer, changedFiles, windowEvents, runAffectedOnly, batches,
                   nevents, watchLast>>

\* disable()
disable ==
    /\ isEnabled
    /\ watcher' = FALSE
    /\ debounceTimer' = FALSE
    /\ changedFiles' = <<>>
    /\ isEnabled' = FALSE
    /\ windowEvents' = 0
    /\ UNCHANGED <<runAffectedOnly, batches, nevents, watchLast>>

Enable == enable /\ UNCHANGED <<runnerVars, histVars, discVars, notifyVars>>

Disable == disable /\ UNCHANGED <<runnerVars, histVars, discVars, notifyVars>>

\* toggle()
Toggle ==
    /\ IF isEnabled THEN disable ELSE enable
    /\ UNCHANGED <<runnerVars, histVars, discVars, notifyVars>>

\* SetAdd on an array instead of a Set: Array.prototype.push
ArrayPush(set, x) == Append(set, x)

\* Set.prototype.add on the insertion-ordered set
SetAdd(set, x) == IF \E i \in 1..Len(set) : set[i] = x THEN set ELSE Append(set, x)

\* onFileChange(uri), called by the installed watcher
OnFileChange ==
    /\ watcher
    /\ nevents < MaxEvents
    /\ nevents' = nevents + 1
    /\ \E fsPath \in EventFiles :
        IF isExcluded(Relative(WorkspaceRoot, fsPath))
        THEN UNCHANGED <<changedFiles, debounceTimer, windowEvents>>
        ELSE /\ changedFiles' = SetAdd(changedFiles, fsPath)
             /\ debounceTimer' = TRUE
             /\ windowEvents' = windowEvents + 1
    /\ UNCHANGED <<watcher, isEnabled, runAffectedOnly, batches, watchLast>>
    /\ UNCHANGED <<runnerVars, histVars, discVars, notifyVars>>

\* a drained batch: kind "all" or "batch", the files left and all files, the
\* events of its window, the runs it started, and where its call waits: at
\* findFiles for the first file left, or inside runInTerminal(node)
Batch(kind, files, events) ==
    [kind |-> kind, files |-> files, all |-> files, events |-> events, runs |-> 0,
     await |-> "run", node |-> NoNode]

\* the batch after one more file
AfterFile(b, started) ==
    [b EXCEPT !.files = Tail(b.files), !.runs = b.runs + started]

\* the loop of runAffectedTests runs on until it returns to the event loop:
\* inside runInTerminal for a test file, at findFiles for any other file, or
\* at its end
Suspend(b) ==
    IF Len(b.files) = 0 THEN [b EXCEPT !.await = "done", !.node = NoNode]
    ELSE IF IsTestFileName(Basename(Head(b.files)))
         THEN [b EXCEPT !.await = "run", !.node = FileNode(Head(b.files))]
         ELSE [b EXCEPT !.await = "findFiles", !.node = NoNode]

\* the batch at position i has become b: it waits on, or its call has ended
Settle(i, b) ==
    IF b.await = "done"
    THEN /\ batches' = RemoveAt(batches, i)
         /\ watchLast' = [op |-> b.kind, events |-> b.events, files |-> b.all,
                          runs |-> b.runs]
    ELSE /\ batches' = [batches EXCEPT ![i] = b]
         /\ UNCHANGED watchLast

\* the first half of runInTerminal when the batch b has just entered it
EnterRun(b) ==
    IF b.await = "run"
    THEN runInTerminal(b.node) /\ UNCHANGED calls
    ELSE UNCHANGED runnerVars

\* runTestsForChangedFiles() until it returns to the event loop, from the
\* batch drained
runTestsForChangedFiles(drained) ==
    \E b \in {IF runAffectedOnly THEN Suspend(Batch("batch", drained, windowEvents))
              ELSE Batch("all", drained, windowEvents)} :
        /\ batches' = Append(batches, b)
        /\ EnterRun(b)
        /\ UNCHANGED watchLast

\* a firing of the debounce timer that leaves the changed files
DebounceFireKeep ==
    /\ debounceTimer
    /\ debounceTimer' = FALSE
    /\ Len(changedFiles) > 0
    /\ runTestsForChangedFiles(changedFiles)
    /\ UNCHANGED <<watcher, isEnabled, changedFiles, runAffectedOnly, windowEvents, nevents>>
    /\ UNCHANGED <<histVars, discVars, notifyVars>>

\* the debounce timer fires: runTestsForChangedFiles() up to its first await
DebounceFire ==
    /\ debounceTimer
    /\ debounceTimer' = FALSE
    /\ Len(changedFiles) > 0
    /\ changedFiles' = <<>>
    /\ windowEvents' = 0
    /\ runTestsForChangedFiles(changedFiles)
    /\ UNCHANGED <<watcher, isEnabled, runAffectedOnly, nevents>>
    /\ UNCHANGED <<histVars, discVars, notifyVars>>

\* findFiles answers the batch at position i: runAffectedTests enters
\* runInTerminal for the closest test file, or goes on with the next file
FindFilesAnswers ==
    \E i \in 1..Len(batches) :
        /\ batches[i].await = "findFiles"
        /\ \E closest \in {ClosestTestFiles(Head(batches[i].files))} :
             \E b \in IF closest # {}
                      THEN {[batches[i] EXCEPT !.await = "run", !.node = FileNode(testFile)] :
                                testFile \in closest}
                      ELSE {Suspend(AfterFile(batches[i], 0))} :
                 /\ EnterRun(b)
                 /\ Settle(i, b)
        /\ UNCHANGED <<watcher, isEnabled, debounceTimer, changedFiles, runAffectedOnly,
                       windowEvents, nevents>>
        /\ UNCHANGED <<histVars, discVars, notifyVars>>

\* the tree provider answers the call of runInTerminal of the batch at
\* position i: the run is started and the call of the batch runs on until it
\* returns to the event loop
WatchRunResumes ==
    \E i \in 1..Len(batches) :
        /\ batches[i].await = "run"
        /\ runInTerminalResumed(batches[i].node)
        /\ UNCHANGED calls
        /\ Settle(i, IF batches[i].kind = "all"
                     THEN [batches[i] EXCEPT !.runs = 1, !.await = "done"]
                     ELSE Suspend(AfterFile(batches[i], 1)))
        /\ UNCHANGED <<watcher, isEnabled, debounceTimer, changedFiles, runAffectedOnly,
                       windowEvents, nevents>>
        /\ UNCHANGED <<histVars, discVars, notifyVars>>

\* dispose(): the watcher is disposed and the timer cleared; isEnabled and
\* the changed files stay
dispose ==
    /\ watcher' = FALSE
    /\ debounceTimer' = FALSE
    /\ UNCHANGED <<isEnabled, changedFiles, runAffectedOnly, batches, windowEvents, nevents,
                   watchLast>>

Dispose == dispose /\ UNCHANGED <<runnerVars, histVars, discVars, notifyVars>>

(***************************************************************************)
(* TestHistoryManager                                                      *)
(***************************************************************************)
MAX_SESSIONS == 50
MAX_TESTS_PER_SESSION == 1000

\* the values of the setting historyMaxSessions explored (documented range 10 - 500)
HistoryMaxSessionsValues == {10, 50}

\* the statuses recordTest is called with
RecordStatuses == {"passed", "failed", "skipped"}

\* the identifiers recordTest is called with
RecordPaths == {P_t1, P_t2}

\* Date.prototype.toISOString and new Date(iso)
ToIso(t) == [iso |-> t]
FromIso(s) == s.iso

\* generateId(): `${Date.now()}-${random}`
generateId(clock, n) == <<clock, n>>

\* no getTestFlakiness call was made in the last step
NoScore == [path |-> <<>>, num |-> 0, den |-> 1]

InitHistory(maxima) ==
    /\ sessions = <<>>
    /\ currentSession = <<>>
    /\ stored = <<>>
    /\ historyMaxSessions \in maxima
    /\ constructed = TRUE
    /\ now = 0
    /\ nextId = 0
    /\ nrecorded = 0
    /\ nsealed = 0
    /\ flakiness = NoScore

\* the session startSession() creates
NewSession(clock, n) ==
    [id |-> generateId(clock, n), startTime |-> clock, endTime |-> <<>>, totalTests |-> 0,
     passed |-> 0, failed |-> 0, skipped |-> 0, duration |-> 0, tests |-> <<>>]

\* startSession()
startSession ==
    /\ currentSession' = <<NewSession(now, nextId)>>
    /\ nextId' = nextId + 1
    /\ UNCHANGED <<sessions, stored, historyMaxSessions, constructed, now, nrecorded, nsealed>>

\* Array.prototype.slice(-n)
LastN(seq, n) == IF Len(seq) > n THEN Sub(seq, Len(seq) - n + 1, Len(seq)) ELSE seq

\* recordTest(dottedPath, testName, status, duration)
recordTest(dottedPath, status, duration) ==
    LET opened  == Len(currentSession) = 0
        session == IF opened THEN NewSession(now, nextId) ELSE currentSession[1]
        recId   == IF opened THEN nextId + 1 ELSE nextId
        record  == [id |-> generateId(now, recId), timestamp |-> now,
                    dottedPath |-> dottedPath, status |-> status, duration |-> duration]
        counted == [session EXCEPT
                        !.tests = Append(@, record),
                        !.totalTests = @ + 1,
                        !.passed = IF status = "passed" THEN @ + 1 ELSE @,
                        !.failed = IF status \in {"failed", "error"} THEN @ + 1 ELSE @,
                        !.skipped = IF status = "skipped" THEN @ + 1 ELSE @]
    IN  /\ currentSession' =
              <<IF Len(counted.tests) > MAX_TESTS_PER_SESSION
                THEN [counted EXCEPT !.tests = LastN(@, MAX_TESTS_PER_SESSION)]
                ELSE counted>>
        /\ nextId' = recId + 1
        /\ nrecorded' = nrecorded + 1
        /\ UNCHANGED <<sessions, stored, historyMaxSessions, constructed, now, nsealed>>

\* saveHistory(): the serializable form written to globalState
Serialize(list) ==
    [i \in 1..Len(list) |->
        [list[i] EXCEPT
            !.startTime = ToIso(@),
            !.endTime = IF Len(@) > 0 THEN <<ToIso(@[1])>> ELSE <<>>,
            !.tests = [j \in 1..Len(@) |-> [@[j] EXCEPT !.timestamp = ToIso(@)]]]]

\* loadHistory(): the sessions rebuilt from the stored form
Deserialize(list) ==
    [i \in 1..Len(list) |->
        [list[i] EXCEPT
            !.startTime = FromIso(@),
            !.endTime = IF Len(@) > 0 THEN <<FromIso(@[1])>> ELSE <<>>,
            !.tests = [j \in 1..Len(@) |-> [@[j] EXCEPT !.timestamp = FromIso(@)]]]]

\* the sealed session pushed to the end of the list
SealedLast(list, cur, clock) ==
    Append(list, [cur EXCEPT !.endTime = <<clock>>, !.duration = clock - cur.startTime])

\* the sessions list after endSession() sealed the session cur
Sealed(list, cur, clock) ==
    LET done   == [cur EXCEPT !.endTime = <<clock>>, !.duration = clock - cur.startTime]
        pushed == <<done>> \o list
    IN  IF Len(pushed) > MAX_SESSIONS THEN Sub(pushed, 1, MAX_SESSIONS) ELSE pushed

\* endSession() with an open session
endSession ==
    /\ Len(currentSession) > 0
    /\ sessions' = Sealed(sessions, currentSession[1], now)
    /\ currentSession' = <<>>
    /\ stored' = <<Serialize(sessions')>>
    /\ nsealed' = nsealed + 1
    /\ UNCHANGED <<historyMaxSessions, constructed, now, nextId, nrecorded>>

\* clearHistory()
clearHistory ==
    /\ sessions' = <<>>
    /\ currentSession' = <<>>
    /\ stored' = <<Serialize(<<>>)>>
    /\ UNCHANGED <<historyMaxSessions, constructed, now, nextId, nrecorded, nsealed>>

\* loadHistory(): session.tests.map raises a TypeError when a stored session
\* has no tests list; nothing catches it
LoadThrows(st) ==
    Len(st) > 0 /\ \E i \in 1..Len(st[1]) : "tests" \notin DOMAIN st[1][i]


\* the constructor of a new extension host: loadHistory(); getInstance sets
\* the instance only when the constructor returns
loadHistory ==
    /\ constructed' = ~LoadThrows(stored)
    /\ sessions' = IF Len(stored) > 0 /\ ~LoadThrows(stored)
                   THEN Deserialize(stored[1]) ELSE <<>>
    /\ currentSession' = <<>>
    /\ UNCHANGED <<stored, historyMaxSessions, now, nextId, nrecorded, nsealed>>

\* the tests of all sessions, session by session
RECURSIVE AllTests(_)
AllTests(list) == IF Len(list) = 0 THEN <<>> ELSE Head(list).tests \o AllTests(Tail(list))

\* Array.prototype.sort with (a, b) => b.timestamp - a.timestamp: stable, newest first
RECURSIVE SortNewestFirst(_)
SortNewestFirst(seq) ==
    IF Len(seq) = 0 THEN <<>>
    ELSE LET front  == SortNewestFirst(Sub(seq, 1, Len(seq) - 1))
             x      == seq[Len(seq)]
             ahead  == {i \in 1..Len(front) : front[i].timestamp >= x.timestamp}
             k      == IF ahead = {} THEN 0 ELSE CHOOSE i \in ahead : \A j \in ahead : j <= i
         IN  Sub(front, 1, k) \o <<x>> \o Sub(front, k + 1, Len(front))

\* getTestHistory without the final sort
getTestHistoryUnsorted(list, dottedPath) ==
    SelectSeq(AllTests(list), LAMBDA t : t.dottedPath = dottedPath)

\* getTestHistory(dottedPath)
getTestHistory(list, dottedPath) ==
    SortNewestFirst(SelectSeq(AllTests(list), LAMBDA t : t.dottedPath = dottedPath))

\* the loop of getTestFlakiness: transitions between history[i-1] and history[i], i >= from
RECURSIVE Transitions(_, _)
Transitions(history, from) ==
    IF from > Len(history) THEN 0
    ELSE LET prevStatus == IF history[from - 1].status = "passed" THEN "passed" ELSE "failed"
             currStatus == IF history[from].status = "passed" THEN "passed" ELSE "failed"
         IN  (IF prevStatus # currStatus THEN 1 ELSE 0) + Transitions(history, from + 1)

\* getTestFlakiness(dottedPath): the quotient num / den
getTestFlakiness(list, dottedPath) ==
    LET history == getTestHistory(list, dottedPath)
    IN  IF Len(history) < 3 THEN [num |-> 0, den |-> 1]
        ELSE [num |-> Transitions(history, 2), den |-> Len(history) - 1]

(***************************************************************************)
(* TestDiscovery: the scan of one file                                     *)
(***************************************************************************)
\* DEFAULT_TEST_BASE_CLASSES
DEFAULT_TEST_BASE_CLASSES == {
    <<"T", "e", "s", "t", "C", "a", "s", "e">>,
    <<"T", "r", "a", "n", "s", "a", "c", "t", "i", "o", "n", "T", "e", "s", "t", "C", "a", "s", "e">>,
    <<"S", "i", "m", "p", "l", "e", "T", "e", "s", "t", "C", "a", "s", "e">>,
    <<"L", "i", "v", "e", "S", "e", "r", "v", "e", "r", "T", "e", "s", "t", "C", "a", "s", "e">>,
    <<"S", "t", "a", "t", "i", "c", "L", "i", "v", "e", "S", "e", "r", "v", "e", "r", "T", "e", "s", "t", "C", "a", "s", "e">>,
    <<"A", "P", "I", "T", "e", "s", "t", "C", "a", "s", "e">>,
    <<"A", "P", "I", "S", "i", "m", "p", "l", "e", "T", "e", "s", "t", "C", "a", "s", "e">>,
    <<"A", "P", "I", "T", "r", "a", "n", "s", "a", "c", "t", "i", "o", "n", "T", "e", "s", "t", "C", "a", "s", "e">>,
    <<"A", "s", "y", "n", "c", "T", "e", "s", "t", "C", "a", "s", "e">>,
    <<"I", "s", "o", "l", "a", "t", "e", "d", "A", "s", "y", "n", "c", "i", "o", "T", "e", "s", "t", "C", "a", "s", "e">>,
    <<"u", "n", "i", "t", "t", "e", "s", "t", ".", "T", "e", "s", "t", "C", "a", "s", "e">>,
    <<"T", "e", "s", "t", "S", "u", "i", "t", "e">> }

\* getTestBaseClasses(): the defaults and the setting testBaseClasses (empty)
getTestBaseClasses == DEFAULT_TEST_BASE_CLASSES

\* String.prototype.trimStart
RECURSIVE TrimStart(_)
TrimStart(s) == IF Len(s) > 0 /\ s[1] \in SpaceCh THEN TrimStart(Tail(s)) ELSE s

\* String.prototype.trim
RECURSIVE TrimEnd(_)
TrimEnd(s) == IF Len(s) > 0 /\ s[Len(s)] \in SpaceCh THEN TrimEnd(Sub(s, 1, Len(s) - 1)) ELSE s

Trim(s) == TrimEnd(TrimStart(s))

S_Test == <<"T", "e", "s", "t">>

\* isTestClass(className, baseClasses): baseClasses is <<>> (undefined) or <<string>>
isTestClass(className, baseClasses) ==
    LET BaseName(baseClass) ==
            Sub(baseClass, LastIndexOf(baseClass, ".") + 1, Len(baseClass))
        IsTestBase(baseClassName) ==
            baseClassName \in getTestBaseClasses \/ StartsWith(baseClassName, S_Test)
        Some(bases) == \E i \in 1..Len(bases) : IsTestBase(BaseName(Trim(bases[i])))
    IN  \/ StartsWith(className, S_Test)
        \/ Len(baseClasses) > 0 /\ Len(baseClasses[1]) > 0 /\ Some(SplitOn(baseClasses[1], ","))

S_class == <<"c", "l", "a", "s", "s">>
S_classSp == <<"c", "l", "a", "s", "s", " ">>
S_defSp == <<"d", "e", "f", " ">>
S_asyncDefSp == <<"a", "s", "y", "n", "c", " ", "d", "e", "f", " ">>
S_async == <<"a", "s", "y", "n", "c">>
S_def == <<"d", "e", "f">>

\* the setting testMethodPattern, at its default
testMethodPattern == <<"t", "e", "s", "t", "_">>

\* classRegex.exec(line) with /^class\s+(\w+)(?:\(([^)]+)\))?/:
\* [found, name, bases] with bases <<>> (undefined) or <<string>>
ClassMatch(line) ==
    LET Bases(open) ==
            IF open <= Len(line) /\ line[open] = "(" /\ IndexFrom(line, ")", open + 1) > open + 1
            THEN <<Sub(line, open + 1, IndexFrom(line, ")", open + 1) - 1)>>
            ELSE <<>>
        Name(nameStart, nameEnd) ==
            IF nameEnd > nameStart
            THEN [found |-> TRUE, name |-> Sub(line, nameStart, nameEnd - 1),
                  bases |-> Bases(nameEnd)]
            ELSE NoMatch
        Space(wsStart, wsEnd) ==
            IF wsEnd > wsStart THEN Name(wsEnd, RunEnd(line, wsEnd, WordCh)) ELSE NoMatch
    IN  IF StartsWith(line, S_class)
        THEN Space(Len(S_class) + 1, RunEnd(line, Len(S_class) + 1, SpaceCh))
        ELSE NoMatch

\* methodRegex.exec(line) with /^\s+(?:async\s+)?def\s+(test_\w+)/: [found, name]
MethodMatch(line) ==
    LET Name(nameStart, nameEnd) ==
            IF MatchAt(line, nameStart, testMethodPattern)
               /\ nameEnd > nameStart + Len(testMethodPattern)
            THEN [found |-> TRUE, name |-> Sub(line, nameStart, nameEnd - 1)]
            ELSE NoMatch
        AfterDef(wsStart, wsEnd) ==
            IF wsEnd > wsStart
            THEN Name(wsEnd, RunEnd(line, wsEnd + Len(testMethodPattern), WordCh))
            ELSE NoMatch
        Def(at) ==
            IF MatchAt(line, at, S_def)
            THEN AfterDef(at + Len(S_def), RunEnd(line, at + Len(S_def), SpaceCh))
            ELSE NoMatch
        Async(at, wsEnd) ==
            IF MatchAt(line, at, S_async) /\ wsEnd > at + Len(S_async)
            THEN Def(wsEnd)
            ELSE Def(at)
        Lead(wsEnd) ==
            IF wsEnd > 1 THEN Async(wsEnd, RunEnd(line, wsEnd + Len(S_async), SpaceCh))
            ELSE NoMatch
    IN  Lead(RunEnd(line, 1, SpaceCh))

\* path.relative(workspaceRoot, fsPath).replace(/\.py$/, '').replace(pathSepRegex, '.')
FileDottedPath(fsPath) ==
    LET Dots(stem) == [i \in 1..Len(stem) |-> IF stem[i] = "/" THEN "." ELSE stem[i]]
        Stem(relativePath) ==
            IF EndsWith(relativePath, S_py)
            THEN Sub(relativePath, 1, Len(relativePath) - Len(S_py)) ELSE relativePath
    IN  Dots(Stem(Relative(WorkspaceRoot, fsPath)))

\* getFileDottedPath(uri): [dottedPath, cache]
getFileDottedPath(fsPath, cache) ==
    IF MapHas(cache, fsPath) /\ Len(MapGet(cache, fsPath)) > 0
    THEN [dottedPath |-> MapGet(cache, fsPath), cache |-> cache]
    ELSE [dottedPath |-> FileDottedPath(fsPath),
          cache |-> MapSet(cache, fsPath, FileDottedPath(fsPath))]

\* F applied to the value of x, computed before F is
Then(x, F(_)) == CHOOSE r \in {F(y) : y \in {x}} : TRUE

\* a node of the hierarchy; range is <<line, 0, line, lineLength>>, <<>> if none
TestNode(name, type, dottedPath, uri, range, children) ==
    [name |-> name, type |-> type, dottedPath |-> dottedPath, uri |-> uri,
     range |-> range, children |-> children]

\* parseFile: the body of the loop over the lines, for line i (from 0);
\* acc = [classes, open], open when currentClass is the last class pushed
ParseFileLine(acc, line, i, fsPath, fileDottedPath) ==
    LET Range == <<i, 0, i, Len(line)>>
        PushClass(className) ==
            [classes |-> Append(acc.classes,
                                TestNode(className, "class",
                                         fileDottedPath \o <<".">> \o className,
                                         fsPath, Range, <<>>)),
             open |-> TRUE]
        Class(classMatch) ==
            IF ~classMatch.found THEN acc
            ELSE IF ~isTestClass(classMatch.name, classMatch.bases)
                 THEN [classes |-> acc.classes, open |-> FALSE]
                 ELSE PushClass(classMatch.name)
        PushMethod(currentClass, methodName) ==
            [currentClass EXCEPT !.children =
                Append(@, TestNode(methodName, "method",
                                   currentClass.dottedPath \o <<".">> \o methodName,
                                   fsPath, Range, <<>>))]
        Method(methodMatch) ==
            IF ~methodMatch.found THEN acc
            ELSE [classes |-> [acc.classes EXCEPT ![Len(acc.classes)] =
                                   PushMethod(@, methodMatch.name)],
                  open |-> TRUE]
        Trimmed(trimmed) ==
            IF Len(trimmed) = 0 \/ trimmed[1] = "#" THEN acc
            ELSE IF StartsWith(trimmed, S_classSp) THEN Class(ClassMatch(line))
            ELSE IF acc.open /\ (StartsWith(trimmed, S_defSp) \/ StartsWith(trimmed, S_asyncDefSp))
                 THEN Method(MethodMatch(line))
                 ELSE acc
    IN  IF Len(line) = 0 THEN acc ELSE Trimmed(TrimStart(line))

\* parseFile: the loop over the lines from line i on
RECURSIVE ParseFileLines(_, _, _, _, _)
ParseFileLines(acc, lines, i, fsPath, fileDottedPath) ==
    IF i >= Len(lines) THEN acc
    ELSE Then(ParseFileLine(acc, lines[i + 1], i, fsPath, fileDottedPath),
              LAMBDA next : ParseFileLines(next, lines, i + 1, fsPath, fileDottedPath))

\* parseFile(uri) on the file system fs: [node, cache], node <<>> (null) or <<fileNode>>;
\* a file that cannot be read raises inside the try block
parseFile(fsPath, fs, cache) ==
    LET Result(dp, classes) ==
            [node |-> IF Len(classes) > 0
                      THEN <<TestNode(Basename(fsPath), "file", dp.dottedPath, fsPath, <<>>,
                                      classes)>>
                      ELSE <<>>,
             cache |-> dp.cache]
        Scan(dp) ==
            Result(dp, ParseFileLines([classes |-> <<>>, open |-> FALSE],
                                      SplitLines(fs[fsPath].text), 0, fsPath,
                                      dp.dottedPath).classes)
    IN  IF ~fs[fsPath].present \/ ~Includes(fs[fsPath].text, S_classSp)
        THEN [node |-> <<>>, cache |-> cache]
        ELSE Then(getFileDottedPath(fsPath, cache), Scan)

(***************************************************************************)
(* TestDiscovery: the hierarchy                                            *)
(***************************************************************************)
LowerSeq == <<"a","b","c","d","e","f","g","h","i","j","k","l","m",
              "n","o","p","q","r","s","t","u","v","w","x","y","z">>
UpperSeq == <<"A","B","C","D","E","F","G","H","I","J","K","L","M",
              "N","O","P","Q","R","S","T","U","V","W","X","Y","Z">>

\* the collation order of the characters of names: punctuation, digits, letters
CollationOrder == <<"_", ".">> \o <<"0","1","2","3","4","5","6","7","8","9">> \o LowerSeq

\* position of c in seq, 0 if absent
IndexIn(seq, c) == IF \E i \in 1..Len(seq) : seq[i] = c
                   THEN CHOOSE i \in 1..Len(seq) : seq[i] = c ELSE 0

\* the primary weight of a character: its letter without case
PrimaryWeight(c) ==
    IF c \in Upper THEN IndexIn(CollationOrder, LowerSeq[IndexIn(UpperSeq, c)])
    ELSE IndexIn(CollationOrder, c)

\* String.prototype.localeCompare from position i: the primary weights first
RECURSIVE PrimaryCompare(_, _, _)
PrimaryCompare(a, b, i) ==
    IF i > Len(a) /\ i > Len(b) THEN 0
    ELSE IF i > Len(a) THEN -1
    ELSE IF i > Len(b) THEN 1
    ELSE IF PrimaryWeight(a[i]) < PrimaryWeight(b[i]) THEN -1
    ELSE IF PrimaryWeight(a[i]) > PrimaryWeight(b[i]) THEN 1
    ELSE PrimaryCompare(a, b, i + 1)

\* localeCompare of strings of equal primary weights: lower case first
RECURSIVE CaseCompare(_, _, _)
CaseCompare(a, b, i) ==
    IF i > Len(a) THEN 0
    ELSE IF a[i] = b[i] THEN CaseCompare(a, b, i + 1)
    ELSE IF a[i] \in Lower THEN -1 ELSE 1

\* String.prototype.localeCompare
localeCompare(a, b) ==
    LET Tie(primary) == IF primary # 0 THEN primary ELSE CaseCompare(a, b, 1)
    IN  Tie(PrimaryCompare(a, b, 1))

\* the comparator of sortNodes: folders first, then by name
CompareNodes(a, b) ==
    LET aIsFolder == IF a.type = "folder" THEN 0 ELSE 1
        bIsFolder == IF b.type = "folder" THEN 0 ELSE 1
    IN  IF aIsFolder # bIsFolder THEN aIsFolder - bIsFolder
        ELSE localeCompare(a.name, b.name)

\* Array.prototype.sort with CompareNodes: stable
RECURSIVE SortLevel(_)
SortLevel(nodes) ==
    IF Len(nodes) <= 1 THEN nodes
    ELSE LET Place(front, x) ==
                 LET k == Cardinality({i \in 1..Len(front) : CompareNodes(front[i], x) <= 0})
                 IN  Sub(front, 1, k) \o <<x>> \o Sub(front, k + 1, Len(front))
         IN  Place(SortLevel(Sub(nodes, 1, Len(nodes) - 1)), nodes[Len(nodes)])

\* sortNodes(nodes): the level, then the children of each node
RECURSIVE sortNodes(_)
RECURSIVE SortChildren(_)
SortChildren(sorted) ==
    IF Len(sorted) = 0 THEN <<>>
    ELSE <<[Head(sorted) EXCEPT !.children = IF Len(@) > 0 THEN sortNodes(@) ELSE @]>>
         \o SortChildren(Tail(sorted))

sortNodes(nodes) == SortChildren(SortLevel(nodes))

\* structureTests: the file node is placed under the folders parts[k..], which are
\* looked up by name in the level (the folderCache holds the same nodes) or created
RECURSIVE PlaceNode(_, _, _, _, _)
PlaceNode(level, parts, k, currentPath, node) ==
    IF k >= Len(parts) THEN Append(level, node)
    ELSE LET Down(path, idx) ==
                 IF idx = 0
                 THEN Append(level,
                             TestNode(parts[k], "folder",
                                      [i \in 1..Len(path) |->
                                          IF path[i] = "/" THEN "." ELSE path[i]],
                                      WorkspaceRoot \o <<"/">> \o path, <<>>,
                                      PlaceNode(<<>>, parts, k + 1, path, node)))
                 ELSE [level EXCEPT ![idx].children = PlaceNode(@, parts, k + 1, path, node)]
             Find(path) ==
                 Down(path,
                      IF \E i \in 1..Len(level) :
                             level[i].name = parts[k] /\ level[i].type = "folder"
                      THEN CHOOSE i \in 1..Len(level) :
                               /\ level[i].name = parts[k] /\ level[i].type = "folder"
                               /\ \A j \in 1..(i - 1) :
                                      ~(level[j].name = parts[k] /\ level[j].type = "folder")
                      ELSE 0)
         IN  Find(IF Len(currentPath) = 0 THEN parts[k]
                  ELSE currentPath \o <<"/">> \o parts[k])

\* a registration that overwrites the record of the node
RegisterAlways(st, node) == setStatus(st, node.dottedPath, "unknown")

\* structureTests: the node is registered in the state manager if not already there
Register(st, node) ==
    IF Len(node.dottedPath) > 0 /\ getStatus(st, node.dottedPath) = "undefined"
    THEN setStatus(st, node.dottedPath, "unknown") ELSE st

\* structureTests: the loop over the file nodes; acc = [roots, st]
RECURSIVE PlaceNodes(_, _)
PlaceNodes(acc, nodes) ==
    IF Len(nodes) = 0 THEN acc
    ELSE LET Step(node) ==
                 [roots |-> PlaceNode(acc.roots, SplitOn(Relative(WorkspaceRoot, node.uri), "/"),
                                      1, <<>>, node),
                  st |-> Register(acc.st, node)]
         IN  Then(Step(Head(nodes)), LAMBDA next : PlaceNodes(next, Tail(nodes)))

\* structureTests(nodes): [roots, st]
structureTests(nodes, st) ==
    LET Sorted(acc) == [roots |-> sortNodes(acc.roots), st |-> acc.st]
    IN  Sorted(PlaceNodes([roots |-> <<>>, st |-> st], nodes))

\* the file nodes after structureTests: sortNodes sorts their children in place
SortedInPlace(map) ==
    [i \in 1..Len(map) |-> [key |-> map[i].key, val |-> sortNodes(<<map[i].val>>)[1]]]

\* Array.from(this.fileNodes.values())
MapValues(map) == [i \in 1..Len(map) |-> map[i].val]

\* Map.prototype.delete
MapDelete(map, k) == SelectSeq(map, LAMBDA e : e.key # k)

(***************************************************************************)
(* The workspace of the discovery specification                            *)
(***************************************************************************)
F_tests   == <<"/", "w", "/", "a", "/", "t", "e", "s", "t", "s", ".", "p", "y">>
F_tests_t == <<"/", "w", "/", "a", "/", "t", "e", "s", "t", "s", "/", "t", "e", "s", "t", "_", "t", ".", "p", "y">>
F_venv    == <<"/", "w", "/", "v", "e", "n", "v", "/", "t", "e", "s", "t", "_", "v", ".", "p", "y">>

\* the files the discovery specification reads and edits
DiscPaths == {F_test_x, F_tests, F_tests_t, F_venv, F_x}

\* two test classes, out of name order, with a base class and an async method
K_two ==
    <<"c", "l", "a", "s", "s", " ", "T", "e", "s", "t", "B", ":", "\n", " ", " ", " ",
      " ", "d", "e", "f", " ", "t", "e", "s", "t", "_", "b", "(", "s", "e", "l", "f",
      ")", ":", "\n", " ", " ", " ", " ", "a", "s", "y", "n", "c", " ", "d", "e", "f",
      " ", "t", "e", "s", "t", "_", "a", "(", "s", "e", "l", "f", ")", ":", "\n", "c",
      "l", "a", "s", "s", " ", "H", "x", "(", "x", ".", "T", "e", "s", "t", "C", "a",
      "s", "e", ")", ":", "\n", " ", " ", " ", " ", "d", "e", "f", " ", "t", "e", "s",
      "t", "_", "a", "(", "s", "e", "l", "f", ")", ":", "\n" >>
\* one test class with a helper method
K_one ==
    <<"c", "l", "a", "s", "s", " ", "T", "e", "s", "t", "A", "(", "T", "e", "s", "t",
      "C", "a", "s", "e", ")", ":", "\n", " ", " ", " ", " ", "d", "e", "f", " ", "t",
      "e", "s", "t", "_", "a", "(", "s", "e", "l", "f", ")", ":", "\n", " ", " ", " ",
      " ", "d", "e", "f", " ", "h", "e", "l", "p", "e", "r", "(", "s", "e", "l", "f",
      ")", ":", "\n" >>
\* a class and a method declared twice
K_dup ==
    <<"c", "l", "a", "s", "s", " ", "T", "e", "s", "t", "A", ":", "\n", " ", " ", " ",
      " ", "d", "e", "f", " ", "t", "e", "s", "t", "_", "a", "(", "s", "e", "l", "f",
      ")", ":", "\n", "c", "l", "a", "s", "s", " ", "T", "e", "s", "t", "A", ":", "\n",
      " ", " ", " ", " ", "d", "e", "f", " ", "t", "e", "s", "t", "_", "a", "(", "s",
      "e", "l", "f", ")", ":", "\n", " ", " ", " ", " ", "d", "e", "f", " ", "t", "e",
      "s", "t", "_", "a", "(", "s", "e", "l", "f", ")", ":", "\n" >>
\* no test class: an ordinary class, a comment, an indented class, a function
K_none ==
    <<"c", "l", "a", "s", "s", " ", "H", "y", "(", "B", "a", "s", "e", ")", ":", "\n",
      " ", " ", " ", " ", "d", "e", "f", " ", "t", "e", "s", "t", "_", "a", "(", "s",
      "e", "l", "f", ")", ":", "\n", "#", " ", "c", "l", "a", "s", "s", " ", "T", "e",
      "s", "t", "Z", ":", "\n", " ", " ", "c", "l", "a", "s", "s", " ", "T", "e", "s",
      "t", "I", ":", "\n", "d", "e", "f", " ", "t", "e", "s", "t", "_", "a", "(", "s",
      "e", "l", "f", ")", ":", "\n" >>
\* no class at all
K_plain == <<"x", " ", "=", " ", "1", "\n">>

Contents == {K_two, K_one, K_dup, K_none, K_plain}

Absent == [present |-> FALSE, text |-> <<>>]
File(text) == [present |-> TRUE, text |-> text]

\* the file systems discovery starts from
FileSystems == {
    [p \in DiscPaths |-> Absent],
    [p \in DiscPaths |-> IF p = F_test_x THEN File(K_dup) ELSE Absent],
    [p \in DiscPaths |-> IF p = F_x THEN Absent
                         ELSE IF p = F_test_x THEN File(K_two) ELSE File(K_one)],
    [p \in DiscPaths |-> IF p = F_test_x THEN File(K_none)
                         ELSE IF p = F_tests_t THEN File(K_two) ELSE Absent] }

S_test == <<"t", "e", "s", "t">>

\* the directories of the exclude pattern of discover
DiscoverExcluded == {
    <<"n", "o", "d", "e", "_", "m", "o", "d", "u", "l", "e", "s">>,
    <<"v", "e", "n", "v">>,
    <<".", "v", "e", "n", "v">>,
    <<"e", "n", "v">>,
    <<".", "e", "n", "v">>,
    <<"_", "_", "p", "y", "c", "a", "c", "h", "e", "_", "_">>,
    <<".", "g", "i", "t">>,
    <<".", "t", "o", "x">>,
    <<"d", "i", "s", "t">>,
    <<"b", "u", "i", "l", "d">> }

\* workspace.findFiles('**/*test*.py', exclude): the files matched, as a set
MatchedFiles(fs) ==
    LET Dirs(parts) == {parts[i] : i \in 1..(Len(parts) - 1)}
    IN  {p \in DiscPaths :
            /\ fs[p].present
            /\ Includes(Basename(p), S_test) /\ EndsWith(Basename(p), S_py)
            /\ Dirs(SplitOn(Relative(WorkspaceRoot, p), "/")) \cap DiscoverExcluded = {}}

(***************************************************************************)
(* TestDiscovery operations                                                *)
(***************************************************************************)
\* discovery operations, and file edits and status writes and clears between them
MaxDiscOps == 2
MaxDiscEnv == 1

\* the files the watcher of '**/*test*.py' reports
WatchedPaths == {p \in DiscPaths : Includes(Basename(p), S_test) /\ EndsWith(Basename(p), S_py)}

\* the file edited while the extension runs, and what it is replaced with
EditedPaths == {F_test_x}
Edits == {Absent, File(K_one), File(K_plain)}

\* the statuses written by runs between discoveries, and the tests they are written for
WrittenStatuses == {"passed", "failed"}
WrittenIds == {FileDottedPath(F_test_x),
               FileDottedPath(F_test_x) \o <<".", "T", "e", "s", "t", "A", ".">> \o
                   <<"t", "e", "s", "t", "_", "a">>}

\* the record kept in discLast; snap: the statuses before the step; prev, kept by
\* a discovery operation that returns, describes the discovery operation that
\* returned before it: its kind, what it read and the hierarchy it returned; read:
\* the files findFiles gave the operation and the workspace as the operation read it
DiscOp(op, uri, snap, prev, read) ==
    [op |-> op, uri |-> uri, snap |-> snap, prev |-> prev, read |-> read]

NoRead == [files |-> {}, fs |-> <<>>, changed |-> FALSE, overlapped |-> FALSE]

NoDiscovery == [op |-> "none", read |-> NoRead, hierarchy |-> <<>>]

\* the record of a step that leaves a discovery operation suspended
Suspended == DiscOp("await", <<>>, statuses, NoDiscovery, NoRead)

\* the paths of the workspace in a fixed order
DiscPathList == <<F_test_x, F_tests, F_tests_t, F_venv, F_x>>

\* a dottedPathCache: the code gets, sets, deletes and clears its entries and
\* never iterates them, so they are kept in the order of DiscPathList
CacheOf(map) ==
    LET Entry(p) == IF MapHas(map, p) THEN <<[key |-> p, val |-> MapGet(map, p)]>> ELSE <<>>
    IN  Entry(DiscPathList[1]) \o Entry(DiscPathList[2]) \o Entry(DiscPathList[3])
            \o Entry(DiscPathList[4]) \o Entry(DiscPathList[5])

\* the workspace as an operation read it: the files findFiles gave it (for
\* updateFile, its file) and the files of contents as they were served, every
\* other file absent; of a discover(), changed: a file was saved or deleted
\* between its call and its return, overlapped: another discover() was suspended
\* between its call and its return
ReadOf(files, contents, changed, overlapped) ==
    [files |-> {files[j] : j \in 1..Len(files)},
     fs |-> [p \in DiscPaths |-> IF MapHas(contents, p) THEN MapGet(contents, p) ELSE Absent],
     changed |-> changed, overlapped |-> overlapped]

InitDisc(fileSystems) ==
    /\ fsFiles \in fileSystems
    /\ fileNodes = <<>>
    /\ dottedPathCache = <<>>
    /\ hierarchy = <<>>
    /\ discPrev = [op |-> "none", read |-> NoRead]
    /\ discLast = DiscOp("init", <<>>, <<>>, NoDiscovery, NoRead)
    /\ ndisc = 0
    /\ scans = <<>>
    /\ reading = <<>>
    /\ nenv = 0
    /\ updateTimeout = <<>>
    /\ unserved = {}
    /\ gone = {}
    /\ deleted = {}
    /\ nwatch = 0

\* the discovery operation that returned before the next one
PrevDiscovery == [op |-> discPrev.op, read |-> discPrev.read, hierarchy |-> hierarchy]

\* discovery calls made so far: returned or suspended
DiscCalls == ndisc + Len(scans) + Len(reading)

\* discover: the loop over the results of the batch, in the order of the files
RECURSIVE SetFileNodes(_, _, _)
SetFileNodes(nodes, files, results) ==
    IF Len(files) = 0 THEN nodes
    ELSE SetFileNodes(IF Len(Head(results)[1].node) > 0
                      THEN MapSet(nodes, Head(files), Head(results)[1].node[1])
                      ELSE nodes,
                      Tail(files), Tail(results))

\* the end of discover, updateFile and removeFile: structureTests on the file nodes
Structure(op, uri, nodes, cache, read) ==
    \E r \in {structureTests(MapValues(nodes), statuses)} :
        /\ hierarchy' = r.roots
        /\ statuses' = r.st
        /\ fileNodes' = SortedInPlace(nodes)
        /\ dottedPathCache' = CacheOf(cache)
        /\ discLast' = DiscOp(op, uri, statuses, PrevDiscovery, read)
        /\ discPrev' = [op |-> op, read |-> read]
        /\ ndisc' = ndisc + 1

\* discover() up to its await of findFiles
discover ==
    /\ scans' = Append([k \in 1..Len(scans) |-> [scans[k] EXCEPT !.overlapped = TRUE]],
                        [await |-> "findFiles", files |-> <<>>, served |-> <<>>,
                         results |-> <<>>,
                         changed |-> FALSE, overlapped |-> Len(scans) > 0])
    /\ discLast' = Suspended
    /\ UNCHANGED <<statuses, fsFiles, fileNodes, dottedPathCache, hierarchy, discPrev, ndisc,
                   reading, nenv>>

Discover == DiscCalls < MaxDiscOps /\ discover

\* findFiles answers a suspended discover() with the files of the workspace in
\* some order: with no file the call returns [], otherwise it clears the maps and
\* calls parseFile for every file, each up to its await of readFile (the files
\* are fewer than BATCH_SIZE = 50, so they are one batch)
filesFound(i, files) ==
    /\ scans[i].await = "findFiles"
    /\ IF Len(files) = 0
       THEN /\ hierarchy' = <<>>
            /\ scans' = RemoveAt(scans, i)
            /\ ndisc' = ndisc + 1
            /\ \E read \in {ReadOf(<<>>, <<>>, scans[i].changed, scans[i].overlapped)} :
                   /\ discLast' = DiscOp("discover", <<>>, statuses, PrevDiscovery, read)
                   /\ discPrev' = [op |-> "discover", read |-> read]
            /\ UNCHANGED <<fileNodes, dottedPathCache>>
       ELSE /\ fileNodes' = <<>>
            /\ dottedPathCache' = <<>>
            /\ scans' = [scans EXCEPT ![i] = [await |-> "reads", files |-> files,
                                               served |-> [j \in 1..Len(files) |-> <<>>],
                                               results |-> [j \in 1..Len(files) |-> <<>>],
                                               changed |-> scans[i].changed,
                                               overlapped |-> scans[i].overlapped]]
            /\ discLast' = Suspended
            /\ UNCHANGED <<hierarchy, discPrev, ndisc>>
    /\ UNCHANGED <<statuses, fsFiles, reading, nenv>>

\* the answers of findFiles taken: the files matched in the order of
\* DiscPathList and in the opposite order
FoundOrders(S) ==
    {SelectSeq(DiscPathList, LAMBDA p : p \in S),
     SelectSeq([j \in 1..Len(DiscPathList) |-> DiscPathList[Len(DiscPathList) + 1 - j]],
               LAMBDA p : p \in S)}

FilesFound ==
    \E i \in 1..Len(scans) : \E files \in FoundOrders(MatchedFiles(fsFiles)) :
        filesFound(i, files)

\* the file system serves the read of the j-th file of the suspended discover()
\* i; the reads of a batch are served in any order
fileRead(i, j) ==
    /\ scans[i].await = "reads"
    /\ Len(scans[i].served[j]) = 0
    /\ scans' = [scans EXCEPT ![i].served[j] = <<fsFiles[scans[i].files[j]]>>]
    /\ discLast' = Suspended
    /\ UNCHANGED <<statuses, fsFiles, fileNodes, dottedPathCache, hierarchy, discPrev, ndisc,
                   reading, nenv>>

FileRead == \E i \in 1..Len(scans) : \E j \in 1..Len(scans[i].files) : fileRead(i, j)

\* the workspace with the file uri as its read was served
ServedFs(uri, file) == [fsFiles EXCEPT ![uri] = file]

\* the scan i after the parseFile of its j-th file has run to its end on the
\* content its read was served with
ScanAfter(i, j, parsed) ==
    [scans[i] EXCEPT !.results[j] = <<[content |-> scans[i].served[j][1],
                                       node |-> parsed.node]>>]

\* the files of a scan whose parseFile has not returned, by their place in the batch
Unparsed(scan) == {j \in 1..Len(scan.files) : Len(scan.results[j]) = 0}

\* the parseFile of one file of a suspended discover(), whose read was served,
\* runs to its end; discover() stays suspended at Promise.all
parseFileReturns(i, j) ==
    /\ scans[i].await = "reads"
    /\ j \in Unparsed(scans[i])
    /\ Len(scans[i].served[j]) > 0
    /\ \E parsed \in {parseFile(scans[i].files[j],
                                 ServedFs(scans[i].files[j], scans[i].served[j][1]),
                                 dottedPathCache)} :
           /\ scans' = [scans EXCEPT ![i] = ScanAfter(i, j, parsed)]
           /\ dottedPathCache' = CacheOf(parsed.cache)
    /\ discLast' = Suspended
    /\ UNCHANGED <<statuses, fsFiles, fileNodes, hierarchy, discPrev, ndisc, reading, nenv>>

ParseFileReturns ==
    \E i \in 1..Len(scans) : \E j \in 1..Len(scans[i].files) : parseFileReturns(i, j)

\* what a scan read: its files and the content each read was served with
ScanRead(scan) ==
    ReadOf(scan.files, [j \in 1..Len(scan.files) |->
                           [key |-> scan.files[j], val |-> scan.results[j][1].content]],
           scan.changed, scan.overlapped)

\* every parseFile of the batch has returned: Promise.all resolves and
\* discover() runs from its await to its end
discoverResumed(i) ==
    /\ scans[i].await = "reads"
    /\ Unparsed(scans[i]) = {}
    /\ Structure("discover", <<>>, SetFileNodes(fileNodes, scans[i].files, scans[i].results),
                 dottedPathCache, ScanRead(scans[i]))
    /\ scans' = RemoveAt(scans, i)
    /\ UNCHANGED <<fsFiles, reading, nenv>>

DiscoverResumes == \E i \in 1..Len(scans) : discoverResumed(i)

\* updateFile(uri) up to the await of readFile in parseFile
updateFile(uri) ==
    /\ dottedPathCache' = CacheOf(MapDelete(dottedPathCache, uri))
    /\ reading' = Append(reading, [uri |-> uri, content |-> <<>>, call |-> "updateFile",
                                     result |-> <<>>])
    /\ discLast' = Suspended
    /\ UNCHANGED <<statuses, fsFiles, fileNodes, hierarchy, discPrev, ndisc, scans, nenv>>

UpdateFile(uri) == DiscCalls < MaxDiscOps /\ updateFile(uri)

\* the file system serves the read of the suspended parseFile i
readServed(i) ==
    /\ Len(reading[i].content) = 0
    /\ reading' = [reading EXCEPT ![i].content = <<fsFiles[reading[i].uri]>>]
    /\ discLast' = Suspended
    /\ UNCHANGED <<statuses, fsFiles, fileNodes, dottedPathCache, hierarchy, discPrev, ndisc,
                   scans, nenv>>

\* the parseFile of a suspended updateFile, whose read was served, runs to its
\* end; updateFile stays suspended at its await of parseFile
parseFileReturned(i) ==
    /\ reading[i].call = "updateFile"
    /\ Len(reading[i].content) > 0
    /\ Len(reading[i].result) = 0
    /\ \E uri \in {reading[i].uri} :
       \E parsed \in {parseFile(uri, ServedFs(uri, reading[i].content[1]), dottedPathCache)} :
           /\ dottedPathCache' = CacheOf(parsed.cache)
           /\ reading' = [reading EXCEPT ![i].result = <<[node |-> parsed.node]>>]
    /\ discLast' = Suspended
    /\ UNCHANGED <<statuses, fsFiles, fileNodes, hierarchy, discPrev, ndisc, scans, nenv>>

\* updateFile(uri) from its await of parseFile, which has returned, on
updateFileResumed(i) ==
    /\ reading[i].call = "updateFile"
    /\ Len(reading[i].result) > 0
    /\ reading' = RemoveAt(reading, i)
    /\ \E uri \in {reading[i].uri} : \E node \in {reading[i].result[1].node} :
           Structure("updateFile", uri,
                     IF Len(node) > 0 THEN MapSet(fileNodes, uri, node[1])
                     ELSE MapDelete(fileNodes, uri),
                     dottedPathCache,
                     ReadOf(<<uri>>, <<[key |-> uri, val |-> reading[i].content[1]]>>, FALSE,
                            FALSE))
    /\ UNCHANGED <<fsFiles, scans, nenv>>

\* the document of the active editor
DecoratedPaths == {F_test_x}

\* parseFile calls of updateDecorations suspended at once
MaxDecorations == 1

Decorating == {i \in 1..Len(reading) : reading[i].call = "parseFile"}

\* updateDecorations(editor) of extension.ts: parseFile(uri) of the document of
\* the active editor, up to its await of readFile
updateDecorations(uri) ==
    /\ Cardinality(Decorating) < MaxDecorations
    /\ reading' = Append(reading, [uri |-> uri, content |-> <<>>, call |-> "parseFile",
                                     result |-> <<>>])
    /\ discLast' = Suspended
    /\ UNCHANGED <<statuses, fsFiles, fileNodes, dottedPathCache, hierarchy, discPrev, ndisc,
                   scans, nenv>>

UpdateDecorations(uri) == DiscCalls < MaxDiscOps /\ updateDecorations(uri)

\* the parseFile of updateDecorations from the return of its file read on; the
\* decorations it sets are not followed
parseFileResumed(i) ==
    /\ reading[i].call = "parseFile"
    /\ Len(reading[i].content) > 0
    /\ reading' = RemoveAt(reading, i)
    /\ \E uri \in {reading[i].uri} :
       \E parsed \in {parseFile(uri, ServedFs(uri, reading[i].content[1]), dottedPathCache)} :
           dottedPathCache' = CacheOf(parsed.cache)
    /\ discLast' = DiscOp("parseFile", <<>>, statuses, NoDiscovery, NoRead)
    /\ UNCHANGED <<statuses, fsFiles, fileNodes, hierarchy, discPrev, ndisc, scans, nenv>>

\* removeFile(uri)
removeFile(uri) ==
    /\ Structure("removeFile", uri, MapDelete(fileNodes, uri), MapDelete(dottedPathCache, uri),
                 ReadOf(<<>>, <<>>, FALSE, FALSE))
    /\ UNCHANGED <<fsFiles, scans, reading, nenv>>

RemoveFile(uri) == DiscCalls < MaxDiscOps /\ removeFile(uri)

\* the user saves or deletes a file; the suspended discover() calls are marked
editFile(uri, file) ==
    /\ nenv' = nenv + 1
    /\ fsFiles[uri] # file
    /\ fsFiles' = [fsFiles EXCEPT ![uri] = file]
    /\ scans' = [k \in 1..Len(scans) |-> [scans[k] EXCEPT !.changed = TRUE]]
    /\ discLast' = DiscOp("edit", uri, statuses, NoDiscovery, NoRead)
    /\ UNCHANGED <<statuses, fileNodes, dottedPathCache, hierarchy, discPrev, ndisc, reading>>

EditFile(uri, file) == nenv < MaxDiscEnv /\ editFile(uri, file)

\* the identifiers of the nodes of a list of nodes and of their descendants
RECURSIVE TreeIds(_)
TreeIds(nodes) ==
    UNION {{nodes[i].dottedPath} \cup TreeIds(nodes[i].children) : i \in 1..Len(nodes)}

\* a run writes the status of a test of the hierarchy: TestStateManager.setStatus
WriteStatus(dottedPath, status) ==
    /\ nenv < MaxDiscEnv
    /\ nenv' = nenv + 1
    /\ statuses' = setStatus(statuses, dottedPath, status)
    /\ discLast' = DiscOp("setStatus", dottedPath, statuses, NoDiscovery, NoRead)
    /\ UNCHANGED <<fsFiles, fileNodes, dottedPathCache, hierarchy, discPrev, ndisc, scans,
                   reading>>

\* TestStateManager.clear()
DiscClear ==
    /\ nenv < MaxDiscEnv
    /\ nenv' = nenv + 1
    /\ statuses' = <<>>
    /\ failureMessages' = <<>>
    /\ discLast' = DiscOp("clear", <<>>, statuses, NoDiscovery, NoRead)
    /\ UNCHANGED <<fsFiles, fileNodes, dottedPathCache, hierarchy, discPrev, ndisc, scans,
                   reading>>

(***************************************************************************)
(* TestStateManager: the change notification                               *)
(***************************************************************************)
\* writes, and flushChanges or clear calls, of the notification specification
MaxNotifyWrites == 3
MaxFlushes == 2

\* the record kept in notifyLast: the operation, and the timers and
\* notifications before it
NotifyOp(op) == [op |-> op, timers |-> fireTimers, fired |-> fired, unnotified |-> unnotified]

InitNotify ==
    /\ fireTimeout = FALSE
    /\ fireTimers = 0
    /\ fired = 0
    /\ unnotified = 0
    /\ nnotifywrites = 0
    /\ nflushes = 0
    /\ notifyLast = [op |-> "init", timers |-> 0, fired |-> 0, unnotified |-> 0]

\* a debouncedFire() that starts a timer at every call
debouncedFireAlways(timeout, timers) == timers + 1

\* debouncedFire(): the number of timers of FIRE_DEBOUNCE_MS outstanding after the call
debouncedFire(timeout, timers) ==
    IF timeout THEN timers ELSE timers + 1

\* setStatus(dottedPath, status)
SetStatus(dottedPath, status) ==
    /\ nnotifywrites < MaxNotifyWrites
    /\ nnotifywrites' = nnotifywrites + 1
    /\ statuses' = setStatus(statuses, dottedPath, status)
    /\ fireTimers' = debouncedFire(fireTimeout, fireTimers)
    /\ fireTimeout' = TRUE
    /\ unnotified' = unnotified + 1
    /\ notifyLast' = NotifyOp("setStatus")
    /\ UNCHANGED <<fired, nflushes, failureMessages>>

\* the loop of setStatusBatch
RECURSIVE SetAll(_, _)
SetAll(st, updates) ==
    IF Len(updates) = 0 THEN st
    ELSE SetAll(setStatus(st, Head(updates).path, Head(updates).status), Tail(updates))

\* setStatusBatch(updates)
setStatusBatch(updates) ==
    /\ nnotifywrites < MaxNotifyWrites
    /\ nnotifywrites' = nnotifywrites + 1
    /\ statuses' = SetAll(statuses, updates)
    /\ fireTimers' = debouncedFire(fireTimeout, fireTimers)
    /\ fireTimeout' = TRUE
    /\ unnotified' = unnotified + 1
    /\ notifyLast' = NotifyOp("setStatusBatch")
    /\ UNCHANGED <<fired, nflushes, failureMessages>>

\* the callback of a timer of debouncedFire
FireTimer ==
    /\ fireTimers > 0
    /\ fireTimers' = fireTimers - 1
    /\ fireTimeout' = FALSE
    /\ fired' = fired + 1
    /\ unnotified' = 0
    /\ notifyLast' = NotifyOp("timer")
    /\ UNCHANGED <<statuses, failureMessages, nnotifywrites, nflushes>>

\* if (this.fireTimeout) clearTimeout(this.fireTimeout): the timers left
ClearTimeout(timeout, timers) ==
    IF timeout /\ timers > 0 THEN timers - 1 ELSE timers

\* flushChanges()
flushChanges ==
    /\ nflushes < MaxFlushes
    /\ nflushes' = nflushes + 1
    /\ fireTimers' = ClearTimeout(fireTimeout, fireTimers)
    /\ fireTimeout' = FALSE
    /\ fired' = fired + 1
    /\ unnotified' = 0
    /\ notifyLast' = NotifyOp("flushChanges")
    /\ UNCHANGED <<statuses, failureMessages, nnotifywrites>>

\* clear()
clear ==
    /\ nflushes < MaxFlushes
    /\ nflushes' = nflushes + 1
    /\ statuses' = <<>>
    /\ failureMessages' = <<>>
    /\ fireTimers' = ClearTimeout(fireTimeout, fireTimers)
    /\ fireTimeout' = FALSE
    /\ fired' = fired + 1
    /\ unnotified' = 0
    /\ notifyLast' = NotifyOp("clear")
    /\ UNCHANGED nnotifywrites

\* discovery and notification at rest, for the specifications that do not follow them
NoFiles == [p \in DiscPaths |-> Absent]
InitOther == InitDisc({NoFiles}) /\ InitNotify

(***************************************************************************)
(* Specification of the run lifecycle: runs, output, ticks and exits       *)
(***************************************************************************)
DefaultConfig == [activeProfile |-> "Default", testArguments |-> <<>>]

Init == InitRunner(Configs) /\ InitWatch({TRUE}) /\ InitHistory({MAX_SESSIONS}) /\ InitOther

Next ==
    \/ RunInTerminal
    \/ RunInTerminalResumes
    \/ RunFailedTests
    \/ OnData
    \/ Tick
    \/ OnExit

Spec == Init /\ [][Next]_vars

Resolved == {"passed", "failed", "skipped", "unknown"}

\* the argument list of the command of the run last refers to
CommandArgs == buildTestCommand(last.node.dottedPath, config).testArguments

\* C1: after the exit callback of a run started by runInTerminal or
\* runFailedTests, or after a cancel, every identifier that was set to pending
\* when the run was started has a status in {passed, failed, skipped, unknown}.
C1_ExhaustiveFinalization ==
    last.op \in {"exit", "cancel"} =>
        \A id \in last.pending : getStatus(statuses, id) \in Resolved

\* C2: when the command of the run was built with an argument list containing
\* --failfast and the process exits non-zero, every identifier under the
\* target that is still pending at exit becomes skipped.
C2_FailFastSkip ==
    (last.op = "exit" /\ last.code # 0 /\ ArrIncludes(CommandArgs, "--failfast")) =>
        \A id \in NodeIds(last.node) :
            getStatus(last.snap, id) = "pending" => getStatus(statuses, id) = "skipped"

\* C3: when the process exits non-zero and the command of the run was not
\* built with --failfast, every identifier under the target that is still
\* pending at exit becomes unknown; finalization sets no identifier to failed.
C3_NonZeroUnknown ==
    /\ (last.op = "exit" /\ last.code # 0 /\ ~ArrIncludes(CommandArgs, "--failfast")) =>
           \A id \in NodeIds(last.node) :
               getStatus(last.snap, id) = "pending" => getStatus(statuses, id) = "unknown"
    /\ last.op = "exit" =>
           \A id \in KeySet(statuses) :
               getStatus(statuses, id) = "failed" => getStatus(last.snap, id) = "failed"

\* C4: when the process exits with code 0, every identifier under the target
\* that is still pending becomes passed, and every identifier that is no
\* longer pending keeps its status through finalization.
C4_ExitZeroPasses ==
    (last.op = "exit" /\ last.code = 0) =>
        /\ \A id \in NodeIds(last.node) :
               getStatus(last.snap, id) = "pending" => getStatus(statuses, id) = "passed"
        /\ KeySet(statuses) = KeySet(last.snap)
        /\ \A id \in KeySet(last.snap) :
               getStatus(last.snap, id) # "pending" =>
                   getStatus(statuses, id) = getStatus(last.snap, id)

\* a clean exit that found one identifier pending and one resolved as failed
C4_Witness ==
    /\ last.op = "exit" /\ last.code = 0
    /\ \E id \in NodeIds(last.node) :
           getStatus(last.snap, id) = "pending" /\ getStatus(statuses, id) = "passed"
    /\ \E id \in NodeIds(last.node) :
           getStatus(last.snap, id) = "failed" /\ getStatus(statuses, id) = "failed"

(***************************************************************************)
(* Specification of cancellation: a run, cancel, the retry timer and the   *)
(* closing of the terminal                                                 *)
(***************************************************************************)
InitDefault == InitRunner({DefaultConfig}) /\ InitWatch({TRUE}) /\ InitHistory({MAX_SESSIONS}) /\ InitOther

StartRun == CallRunInTerminal(MaxCancelRuns)

NextCancel ==
    \/ StartRun
    \/ RunInTerminalResumes
    \/ Run
    \/ ExecDone
    \/ OnData
    \/ Tick
    \/ OnExit
    \/ Cancel
    \/ CancelRetry
    \/ CloseTerminal

SpecCancel == InitDefault /\ [][NextCancel]_vars

\* C5: immediately after cancel() on an existing channel no record is
\* pending: every record that was pending is skipped and every record that
\* was not pending is unchanged.
C5_CancelSkipsPending ==
    last.op = "cancel" =>
        /\ KeySet(statuses) = KeySet(last.snap)
        /\ \A id \in KeySet(last.snap) :
               /\ getStatus(statuses, id) # "pending"
               /\ getStatus(last.snap, id) = "pending" => getStatus(statuses, id) = "skipped"
               /\ getStatus(last.snap, id) # "pending" =>
                      getStatus(statuses, id) = getStatus(last.snap, id)

\* a cancel that found one record pending and one passed
C5_Witness ==
    /\ last.op = "cancel"
    /\ \E id \in KeySet(last.snap) :
           getStatus(last.snap, id) = "pending" /\ getStatus(statuses, id) = "skipped"
    /\ \E id \in KeySet(last.snap) :
           getStatus(last.snap, id) = "passed" /\ getStatus(statuses, id) = "passed"

(***************************************************************************)
(* Specification of the output parser: one run fed with every kind of line *)
(***************************************************************************)
\* runs started in the parser specification
MaxParseRuns == 1
\* chunks delivered in the parser specification
MaxParseChunks == 2

ParseRun == CallRunInTerminal(MaxParseRuns)

ParseData == onData(Chunks, MaxParseChunks)

NextParse ==
    \/ ParseRun
    \/ RunInTerminalResumes
    \/ ParseData
    \/ Tick
    \/ OnExit

SpecParse == InitDefault /\ [][NextParse]_vars

\* the identifier `<dotted.path>.<name>` of the lines of Chunks, not doubled
ExpectedId(name, path) == IF name = W_t2 /\ path = P_t2 THEN P_t2 ELSE path \o <<".">> \o name

ExpectedStatus(marker) ==
    IF marker = W_ok THEN "passed" ELSE IF marker = W_skipped THEN "skipped" ELSE "failed"

LinePaths == {P_T, P_t2}

\* the complete lines of the batch parsed by the last tick or exit
BatchLines == SelectSeq(SplitLines(last.text), LAMBDA l : Len(l) > 0)

\* the statuses right after the batch was parsed
AfterBatch == IF last.op = "exit" THEN last.snap ELSE statuses

Parsed == last.op \in {"tick", "exit"} /\ Len(BatchLines) > 0

\* C6: after a transcript line `<name> (<dotted.path>) ... <marker>` was
\* parsed, `<dotted.path>.<name>` (not doubled) is passed for ok, skipped for
\* skipped and failed for FAIL or ERROR, and the register is empty; of two
\* successive transcript lines each resolves its own identifier.
C6_TranscriptParsing ==
    Parsed =>
        \A name \in Names, path \in LinePaths, marker \in Markers :
            LET n == Len(BatchLines) IN
            /\ BatchLines[n] = TranscriptLine(name, path, marker) =>
                   /\ getStatus(AfterBatch, ExpectedId(name, path)) = ExpectedStatus(marker)
                   /\ parsingTestPath = <<>>
            /\ \A name2 \in Names, path2 \in LinePaths, marker2 \in Markers :
                   (/\ n >= 2
                    /\ BatchLines[n - 1] = TranscriptLine(name, path, marker)
                    /\ BatchLines[n] = TranscriptLine(name2, path2, marker2)
                    /\ ExpectedId(name, path) # ExpectedId(name2, path2)) =>
                       getStatus(AfterBatch, ExpectedId(name, path)) = ExpectedStatus(marker)

\* C7: after a line `FAIL: <name> (<path>)` or `ERROR: <name> (<path>)` was
\* parsed, `<path>.<name>` is failed, whatever the register held and whether
\* or not a transcript line for the identifier was parsed before.
C7_SummaryFallback ==
    Parsed =>
        \A kind \in {W_FAIL, W_ERROR}, name \in Names, path \in LinePaths :
            BatchLines[Len(BatchLines)] = SummaryLine(kind, name, path) =>
                getStatus(AfterBatch, ExpectedId(name, path)) = "failed"

(***************************************************************************)
(* Specification of watch mode                                             *)
(***************************************************************************)
InitWatchMode ==
    InitRunner({DefaultConfig}) /\ InitWatch(BOOLEAN) /\ InitHistory({MAX_SESSIONS})
    /\ InitOther

NextWatch ==
    \/ Enable
    \/ Disable
    \/ Toggle
    \/ OnFileChange
    \/ DebounceFire
    \/ FindFilesAnswers
    \/ WatchRunResumes

SpecWatch == InitWatchMode /\ [][NextWatch]_vars

\* the event files that are test files by name
TestFileSet == {F_test_x, F_y_test, F_test_q}

\* the event files a run is started for: the test files, and x.py for its
\* companion test_x.py
RunnableFiles == TestFileSet \cup {F_x}

\* C8 as amended: the change events of one debounce window are drained by
\* one firing of the timer into one batch of distinct files, and the batch
\* starts one run for each of its files that is a test file or has a
\* companion test file: one run for a test file changed three times, three
\* runs for three different test files.
C8_OneRunPerChangedFile ==
    watchLast.op = "batch" =>
        /\ Len(watchLast.files) >= 1
        /\ Len(watchLast.files) <= watchLast.events
        /\ \A i, j \in 1..Len(watchLast.files) :
               watchLast.files[i] = watchLast.files[j] => i = j
        /\ watchLast.runs =
               Cardinality({i \in 1..Len(watchLast.files) : watchLast.files[i] \in RunnableFiles})

\* three events on three different test files in one window: three runs
C8_Witness ==
    /\ watchLast.op = "batch"
    /\ watchLast.events = 3
    /\ Len(watchLast.files) = 3
    /\ \A i \in 1..3 : watchLast.files[i] \in TestFileSet
    /\ watchLast.runs = 3

\* C8 as stated: three events of one window, on the same test file or on
\* three different test files, start exactly one run.
C8_ExactlyOneRun ==
    (/\ watchLast.op = "batch"
     /\ watchLast.events = 3
     /\ Len(watchLast.files) \in {1, 3}
     /\ \A i \in 1..Len(watchLast.files) : watchLast.files[i] \in TestFileSet) =>
        watchLast.runs = 1

(***************************************************************************)
(* Specification of the session history                                    *)
(***************************************************************************)
\* endSession calls that seal a session
MaxSealed == 11
\* recordTest calls in the history specification
MaxRecorded == 1
\* identifiers drawn by generateId in the history specification
MaxIds == 13

InitHist ==
    InitRunner({DefaultConfig}) /\ InitWatch({TRUE}) /\ InitHistory(HistoryMaxSessionsValues)
    /\ InitOther

\* startSession(), called when no session is open
HStart ==
    /\ Len(currentSession) = 0
    /\ nextId < MaxIds
    /\ startSession
    /\ UNCHANGED <<flakiness, runnerVars, watchVars, discVars, notifyVars>>

HRecord ==
    /\ nrecorded < MaxRecorded
    /\ nextId + 1 < MaxIds
    /\ \E dottedPath \in RecordPaths, status \in RecordStatuses :
           recordTest(dottedPath, status, 1)
    /\ UNCHANGED <<flakiness, runnerVars, watchVars, discVars, notifyVars>>

HEnd == nsealed < MaxSealed /\ endSession /\ UNCHANGED <<flakiness, runnerVars, watchVars, discVars, notifyVars>>

HClear == Len(sessions) > 0 /\ clearHistory /\ UNCHANGED <<flakiness, runnerVars, watchVars, discVars, notifyVars>>

\* a new extension host is started
HReload ==
    /\ loadHistory
    /\ UNCHANGED <<flakiness, runnerVars, watchVars, discVars, notifyVars>>

NextHistory ==
    \/ HStart
    \/ HRecord
    \/ HEnd
    \/ HClear
    \/ HReload

SpecHistory == InitHist /\ [][NextHistory]_vars

\* C9: the number of retained sessions never exceeds the configured maximum
\* session count (also right after loading the persisted history), and the
\* sessions retained are the most recently sealed ones, newest first.
C9_HistoryCapacity ==
    /\ Len(sessions) <= historyMaxSessions
    /\ \A i, j \in 1..Len(sessions) : i < j => sessions[i].id[2] > sessions[j].id[2]

(***************************************************************************)
(* Specification of the flakiness score: histories built by recordTest and *)
(* endSession, scored by getTestFlakiness                                  *)
(***************************************************************************)
\* recordTest calls in the flakiness specification
MaxFlakyRecords == 5
\* the clock in the flakiness specification
MaxFlakyClock == 5
\* sessions sealed in the flakiness specification
MaxFlakySessions == 2

\* the identifiers and statuses recorded in the flakiness specification
FlakyInputs == {<<P_t1, "passed">>, <<P_t1, "failed">>, <<P_t2, "skipped">>}

FRecord ==
    /\ nrecorded < MaxFlakyRecords
    /\ \E in \in FlakyInputs : recordTest(in[1], in[2], 1)
    /\ flakiness' = NoScore
    /\ UNCHANGED <<runnerVars, watchVars, discVars, notifyVars>>

\* endSession(), at a later time than the records of the session
FEnd ==
    /\ nsealed < MaxFlakySessions
    /\ Len(currentSession) > 0
    /\ \A i \in 1..Len(currentSession[1].tests) : currentSession[1].tests[i].timestamp < now
    /\ endSession
    /\ flakiness' = NoScore
    /\ UNCHANGED <<runnerVars, watchVars, discVars, notifyVars>>

\* the clock advances past a time that a record of the open session carries
FTick ==
    /\ now < MaxFlakyClock
    /\ Len(currentSession) > 0
    /\ \E i \in 1..Len(currentSession[1].tests) : currentSession[1].tests[i].timestamp = now
    /\ now' = now + 1
    /\ flakiness' = NoScore
    /\ UNCHANGED <<sessions, currentSession, stored, historyMaxSessions, constructed, nextId, nrecorded,
                   nsealed>>
    /\ UNCHANGED <<runnerVars, watchVars, discVars, notifyVars>>

\* a call of getTestFlakiness(dottedPath)
FScore ==
    /\ \E dottedPath \in RecordPaths :
           flakiness' = [path |-> dottedPath,
                         num |-> getTestFlakiness(sessions, dottedPath).num,
                         den |-> getTestFlakiness(sessions, dottedPath).den]
    /\ UNCHANGED <<sessions, currentSession, stored, historyMaxSessions, constructed, now, nextId,
                   nrecorded, nsealed>>
    /\ UNCHANGED <<runnerVars, watchVars, discVars, notifyVars>>

NextFlaky ==
    \/ FRecord
    \/ FEnd
    \/ FTick
    \/ FScore

SpecFlaky == InitDefault /\ [][NextFlaky]_vars

\* the retained records of the identifier of the last getTestFlakiness call
ScoredRecords ==
    UNION {{sessions[i].tests[j] : j \in {k \in 1..Len(sessions[i].tests) :
                                            sessions[i].tests[k].dottedPath = flakiness.path}} :
           i \in 1..Len(sessions)}

DistinctTimes == \A a, b \in ScoredRecords : a # b => a.timestamp # b.timestamp

\* the pairs of records adjacent in timestamp order of which exactly one is passed
FlippedPairs ==
    {pr \in ScoredRecords \X ScoredRecords :
        /\ pr[1].timestamp < pr[2].timestamp
        /\ ~\E c \in ScoredRecords :
               pr[1].timestamp < c.timestamp /\ c.timestamp < pr[2].timestamp
        /\ (pr[1].status = "passed") # (pr[2].status = "passed")}

\* C10: with n retained records of the identifier, getTestFlakiness is 0 when
\* n < 3 and otherwise (adjacent pairs in timestamp order of which exactly one
\* is passed) / (n - 1); an always-passing or never-passing history scores 0.
C10_Flakiness ==
    flakiness.path # <<>> =>
        LET n == Cardinality(ScoredRecords) IN
        /\ flakiness.den > 0
        /\ n < 3 => flakiness.num = 0
        /\ (n >= 3 /\ DistinctTimes) =>
               flakiness.num * (n - 1) = Cardinality(FlippedPairs) * flakiness.den
        /\ (n >= 3 /\ (\/ \A r \in ScoredRecords : r.status = "passed"
                       \/ \A r \in ScoredRecords : r.status # "passed")) =>
               flakiness.num = 0

\* five records at five times, alternating passed and failed over two
\* sessions, score 4/4
C10_Witness ==
    /\ flakiness.path # <<>>
    /\ Cardinality(ScoredRecords) = 5
    /\ DistinctTimes
    /\ Cardinality(FlippedPairs) = 4
    /\ Len(sessions) = 2
    /\ flakiness.num = 4
    /\ flakiness.den = 4


(***************************************************************************)
(* Specification of discovery: scans, file events, edits and status writes *)
(***************************************************************************)
\* what discovery leaves alone besides the maps of the TestStateManager
discFrame == <<parsingBuffer, parsingTestPath, isParsing, parsingInterval, djangoTerminal,
               terminal, isRunning, config, procs, nruns, fed, cancelTimers, sigints, calls,
                 last,
               watchVars, histVars, notifyVars, autoVars>>

InitDiscovery ==
    /\ InitRunnerFrom({DefaultConfig}, <<>>) /\ InitWatch({TRUE})
    /\ InitHistory({MAX_SESSIONS}) /\ InitDisc(FileSystems) /\ InitNotify

DDiscover == Discover /\ UNCHANGED <<failureMessages, discFrame>>

DFilesFound == FilesFound /\ UNCHANGED <<failureMessages, discFrame>>

DFileRead == FileRead /\ UNCHANGED <<failureMessages, discFrame>>

DParseFileReturns == ParseFileReturns /\ UNCHANGED <<failureMessages, discFrame>>

DDiscoverResumes == DiscoverResumes /\ UNCHANGED <<failureMessages, discFrame>>

DUpdateFile == \E uri \in WatchedPaths : UpdateFile(uri) /\ UNCHANGED <<failureMessages, discFrame>>

DReadServed == \E i \in 1..Len(reading) : readServed(i) /\ UNCHANGED <<failureMessages, discFrame>>

DParseFileReturned ==
    \E i \in 1..Len(reading) : parseFileReturned(i) /\ UNCHANGED <<failureMessages, discFrame>>

DUpdateFileResumes ==
    \E i \in 1..Len(reading) : updateFileResumed(i) /\ UNCHANGED <<failureMessages, discFrame>>

DUpdateDecorations ==
    \E uri \in DecoratedPaths : UpdateDecorations(uri) /\ UNCHANGED <<failureMessages, discFrame>>

DParseFileResumes ==
    \E i \in 1..Len(reading) : parseFileResumed(i) /\ UNCHANGED <<failureMessages, discFrame>>

DRemoveFile == \E uri \in WatchedPaths : RemoveFile(uri) /\ UNCHANGED <<failureMessages, discFrame>>

DEditFile ==
    \E uri \in EditedPaths : \E file \in Edits :
        EditFile(uri, file) /\ UNCHANGED <<failureMessages, discFrame>>

DWriteStatus ==
    \E dottedPath \in TreeIds(hierarchy) \cap WrittenIds : \E status \in WrittenStatuses :
        WriteStatus(dottedPath, status) /\ UNCHANGED <<failureMessages, discFrame>>

DClear == DiscClear /\ UNCHANGED discFrame

NextDiscovery ==
    \/ DDiscover
    \/ DFilesFound
    \/ DFileRead
    \/ DParseFileReturns
    \/ DDiscoverResumes
    \/ DUpdateFile
    \/ DReadServed
    \/ DParseFileReturned
    \/ DUpdateFileResumes
    \/ DUpdateDecorations
    \/ DParseFileResumes
    \/ DRemoveFile
    \/ DEditFile
    \/ DWriteStatus
    \/ DClear

SpecDiscovery == InitDiscovery /\ [][NextDiscovery]_vars


\* the operations of TestDiscovery that return a hierarchy
DiscoveryOps == {"discover", "updateFile", "removeFile"}

\* the nodes of a list of nodes and their descendants, parents first
RECURSIVE Flatten(_)
Flatten(nodes) ==
    IF Len(nodes) = 0 THEN <<>>
    ELSE <<Head(nodes)>> \o Flatten(Head(nodes).children) \o Flatten(Tail(nodes))

\* C11: a discover() called after a discover() returned, with no other discovery
\* operation returning in between and no other discover() suspended while
\* either ran, when no file was saved or deleted between the call and the return
\* of either and findFiles gave both the same files and the reads gave both the
\* same contents, returns the same hierarchy, with the same identifiers in the
\* same order at every level, and leaves every record whose status is not
\* unknown as it was.
C11_IdempotentDiscovery ==
    (/\ discLast.op = "discover"
     /\ discLast.prev.op = "discover"
     /\ ~discLast.read.changed
     /\ ~discLast.read.overlapped
     /\ discLast.prev.read = discLast.read)
    => /\ hierarchy = discLast.prev.hierarchy
       /\ \A k \in KeySet(discLast.snap) :
              getStatus(discLast.snap, k) # "unknown"
              => getStatus(statuses, k) = getStatus(discLast.snap, k)

\* C12: discover, updateFile and removeFile keep every record and its status;
\* no operation but clear() removes a record.
C12_RecordsSurviveDiscovery ==
    /\ discLast.op \in DiscoveryOps
       => \A k \in KeySet(discLast.snap) :
              MapHas(statuses, k) /\ getStatus(statuses, k) = getStatus(discLast.snap, k)
    /\ discLast.op # "clear" => KeySet(discLast.snap) \subseteq KeySet(statuses)

\* a file event registers a new file while a record holds the status of a run
C12_Witness ==
    /\ discLast.op \in {"updateFile", "removeFile"}
    /\ statuses # discLast.snap
    /\ \E k \in KeySet(discLast.snap) : getStatus(discLast.snap, k) \in WrittenStatuses

\* C13: after a discovery operation every class and every method of the
\* returned hierarchy has a record.
C13_GroupsAndCasesRegistered ==
    discLast.op \in DiscoveryOps
    => \A i \in 1..Len(Flatten(hierarchy)) :
           Flatten(hierarchy)[i].type \in {"class", "method"}
           => MapHas(statuses, Flatten(hierarchy)[i].dottedPath)

\* no two of the nodes have the same identifier
Distinct(nodes) ==
    \A i, j \in 1..Len(nodes) : i # j => nodes[i].dottedPath # nodes[j].dottedPath

\* C14: in the returned hierarchy no two children of one parent, and no two
\* roots, have the same identifier, and no two folder nodes stand for the same
\* directory.
C14_SiblingsDistinct ==
    /\ Distinct(hierarchy)
    /\ \A i \in 1..Len(Flatten(hierarchy)) : Distinct(Flatten(hierarchy)[i].children)
    /\ Distinct(SelectSeq(Flatten(hierarchy), LAMBDA n : n.type = "folder"))

(***************************************************************************)
(* Further properties of the run lifecycle                                 *)
(***************************************************************************)
\* is id the identifier target or an identifier below it (any, for the empty target)
Under(id, target) ==
    \/ Len(target) = 0
    \/ id = target
    \/ StartsWith(id, target \o <<".">>)

\* the statuses a finished run leaves
TerminalStatuses == {"passed", "failed", "skipped"}

\* C15: when runInTerminal has handed the command of a target to the channel,
\* the target and every identifier below it in the hierarchy (every identifier,
\* for the empty target) is pending.
C15_ResetBeforeRun ==
    last.op = "run"
    => \A id \in TreeIds(Roots) :
           Under(id, last.node.dottedPath) => getStatus(statuses, id) = "pending"

\* a run of a node with children, dispatched when a test below it held the
\* status of an earlier run
C15_Witness ==
    /\ last.op = "run"
    /\ Len(last.node.children) > 0
    /\ \E id \in TreeIds(Roots) :
           /\ id # last.node.dottedPath
           /\ Under(id, last.node.dottedPath)
           /\ getStatus(last.snap, id) \in TerminalStatuses
           /\ getStatus(statuses, id) = "pending"

(***************************************************************************)
(* Specification of the change notification: writes, the timer, flushes    *)
(***************************************************************************)
\* what the notification operations leave alone besides the maps
notifyFrame == <<parsingBuffer, parsingTestPath, isParsing, parsingInterval, djangoTerminal,
                 terminal, isRunning, config, procs, nruns, fed, cancelTimers, sigints, calls,
                 last,
                 watchVars, histVars, discVars>>

\* the arguments of setStatusBatch
BatchUpdates == {<<>>,
                 <<[path |-> P_t1, status |-> "passed"], [path |-> P_t2, status |-> "failed"]>>}

NSetStatus ==
    \E dottedPath \in {P_t1, P_t2} : \E status \in {"passed", "failed"} :
        SetStatus(dottedPath, status) /\ UNCHANGED notifyFrame

NSetStatusBatch == \E updates \in BatchUpdates : setStatusBatch(updates) /\ UNCHANGED notifyFrame

NFireTimer == FireTimer /\ UNCHANGED notifyFrame

NFlushChanges == flushChanges /\ UNCHANGED notifyFrame

NClear == clear /\ UNCHANGED notifyFrame

NextNotify ==
    \/ NSetStatus
    \/ NSetStatusBatch
    \/ NFireTimer
    \/ NFlushChanges
    \/ NClear

SpecNotify == InitDefault /\ [][NextNotify]_vars

\* the event loop runs the callback of a timer that is due
SpecNotifyFair == SpecNotify /\ WF_vars(NFireTimer)

\* at most one timer is outstanding, and it is the one fireTimeout holds
OneTimer == fireTimers <= 1 /\ (fireTimeout <=> fireTimers = 1)

\* a write notifies nothing itself and leaves a timer outstanding; the timer,
\* flushChanges and clear each notify once, for all the writes since the last
\* notification, and leave no timer
OneNotification ==
    /\ notifyLast.op \in {"setStatus", "setStatusBatch"}
       => /\ fired = notifyLast.fired
          /\ fireTimers = 1
          /\ unnotified = notifyLast.unnotified + 1
    /\ notifyLast.op \in {"timer", "flushChanges", "clear"}
       => /\ fired = notifyLast.fired + 1
          /\ fireTimers = 0
          /\ unnotified = 0
    /\ notifyLast.op = "timer" => notifyLast.unnotified >= 1

\* C16: at most one notification is scheduled at any time; the writes made
\* while one is scheduled are answered by exactly one notification; and every
\* write is eventually followed by a notification.
C16_DebouncedNotification ==
    /\ [](OneTimer /\ OneNotification)
    /\ (unnotified > 0) ~> (unnotified = 0)

\* the timer fires once for three writes
C16_Witness ==
    /\ notifyLast.op = "timer"
    /\ notifyLast.unnotified = 3
    /\ fired = 1

(***************************************************************************)
(* Further properties of cancellation                                      *)
(***************************************************************************)
\* C17: when the 500 ms timer of cancel() fires, a second interrupt is sent
\* to the channel if the process of the run has not exited, and none if it has.
C17_CancelRetry ==
    [][cancelTimers' = cancelTimers - 1
       => sigints' = (IF procs # {} /\ djangoTerminal THEN sigints + 1 ELSE sigints)]_vars

(***************************************************************************)
(* Further properties of watch mode                                        *)
(***************************************************************************)
\* C18: the observer is installed exactly when watch mode is enabled, and
\* while watch mode is disabled no changed file is pending and no debounce
\* timer is armed.
C18_WatchStateMachine ==
    /\ watcher <=> isEnabled
    /\ ~isEnabled => (changedFiles = <<>> /\ ~debounceTimer)

\* watch mode was enabled, took change events and is disabled again before
\* any of them was drained
C18_Witness ==
    /\ ~isEnabled /\ ~watcher
    /\ nevents >= 2
    /\ changedFiles = <<>> /\ ~debounceTimer
    /\ batches = <<>> /\ watchLast = NoBatch /\ nruns = 0

\* C19: with run-affected-only off, a firing of the debounce timer leaves no
\* changed file pending and makes one call of runInTerminal, of the empty
\* target, for all the files drained; the call starts exactly one run when the
\* tree provider has answered, and no run is started in any other way.
C19_RunAllOncePerWindow ==
    [][/\ (~runAffectedOnly /\ debounceTimer /\ ~debounceTimer' /\ isEnabled')
          => /\ changedFiles' = <<>>
             /\ nruns' = nruns
             /\ batches' = Append(batches, Batch("all", changedFiles, windowEvents))
       /\ (~runAffectedOnly /\ Len(batches') < Len(batches))
          => /\ nruns' = nruns + 1
             /\ last'.op = "run" /\ last'.run = nruns + 1 /\ Len(last'.node.dottedPath) = 0
             /\ \E p \in procs' : p.run = nruns + 1 /\ p.cmd = buildTestCommand(<<>>, config)
             /\ watchLast'.op = "all" /\ watchLast'.runs = 1
       /\ (~runAffectedOnly /\ nruns' # nruns) => Len(batches') = Len(batches) - 1]_vars

\* one firing has drained several files into a single run of the whole suite
C19_Witness ==
    /\ ~runAffectedOnly
    /\ watchLast.op = "all"
    /\ Len(watchLast.files) >= 2
    /\ nruns = 1
    /\ changedFiles = <<>>

(***************************************************************************)
(* Profile resolution                                                      *)
(***************************************************************************)
\* the arguments buildTestCommand appends by itself
ForcedArgs == {"-v", "2", "--noinput"}

\* used is list, less the output-buffering flags, followed by forced arguments
ResolvedFrom(used, list) ==
    \E k \in 0..Len(used) :
        /\ SubSeq(used, 1, k) = SelectSeq(list, LAMBDA a : a \notin {"--buffer", "-b"})
        /\ \A i \in (k + 1)..Len(used) : used[i] \in ForcedArgs

\* C20: the argument list of every command built is the ad-hoc list when it is
\* non-empty, otherwise the list of the active profile, otherwise (no such
\* profile) the empty list, followed only by the arguments the runner forces;
\* no argument of the profile is mixed into a non-empty ad-hoc list
C20_ProfileResolution ==
    \A p \in procs :
        /\ Len(config.testArguments) > 0
               => ResolvedFrom(p.cmd.testArguments, config.testArguments)
        /\ (Len(config.testArguments) = 0 /\ config.activeProfile \in DOMAIN TestProfiles)
               => ResolvedFrom(p.cmd.testArguments, TestProfiles[config.activeProfile])
        /\ (Len(config.testArguments) = 0 /\ config.activeProfile \notin DOMAIN TestProfiles)
               => ResolvedFrom(p.cmd.testArguments, <<>>)

\* a command was built with a non-empty ad-hoc list while the active profile
\* holds an argument the ad-hoc list lacks, and that argument is not in it
C20_Witness ==
    /\ Len(config.testArguments) > 0
    /\ config.activeProfile \in DOMAIN TestProfiles
    /\ \E p \in procs :
          \E i \in 1..Len(TestProfiles[config.activeProfile]) :
              ~ArrIncludes(p.cmd.testArguments, TestProfiles[config.activeProfile][i])

(***************************************************************************)
(* Verbosity flag                                                          *)
(***************************************************************************)
\* the spellings of the verbosity option of `manage.py test`, and the
\* --verbose the builder also looks for
VerbosityFlags ==
    {"-v", "--verbose", "--verbosity", "--verbosity=0", "--verbosity=1",
     "--verbosity=2", "--verbosity=3", "-v0", "-v1", "-v2", "-v3"}

\* the verbosity flags of an argument list, in order
VerbosityOf(args) == SelectSeq(args, LAMBDA a : a \in VerbosityFlags)

\* C21: every command built carries a verbosity flag, and the builder appends
\* its own only when the resolved argument list has none in any spelling, so
\* the command carries exactly one
C21_OneVerbosityFlag ==
    \A p \in procs : Len(VerbosityOf(p.cmd.testArguments)) = 1

(***************************************************************************)
(* Spawn failure                                                           *)
(***************************************************************************)
\* the process of the run just requested fails to spawn (bad interpreter
\* path): the channel surfaces the error and calls neither callback of
\* runCommand, so the runner changes nothing
SpawnFail ==
    /\ last.op \in {"run", "runFailed"}
    /\ \E p \in procs :
          /\ p.run = last.run
          /\ procs' = procs \ {p}
          /\ last' = Op("spawnFail", p.run, p.node, 0, last.snap, <<>>, p.pending)
    /\ UNCHANGED <<statuses, failureMessages, parsingBuffer, parsingTestPath, isParsing,
                   parsingInterval, djangoTerminal, terminal, isRunning, config, nruns,
                   fed, cancelTimers, sigints,
                   calls>>
    /\ UNCHANGED <<watchVars, histVars, discVars, notifyVars>>

NextSpawn ==
    \/ RunInTerminal
    \/ RunInTerminalResumes
    \/ RunFailedTests
    \/ OnData
    \/ Tick
    \/ OnExit
    \/ SpawnFail

SpecSpawn == InitDefault /\ [][NextSpawn]_vars

\* C22: when the process of a requested run fails to spawn, every status is
\* what it was before the run was requested
C22_SpawnFailureKeepsStatuses ==
    last.op = "spawnFail" =>
        /\ KeySet(statuses) = KeySet(last.snap)
        /\ \A id \in KeySet(last.snap) : getStatus(statuses, id) = getStatus(last.snap, id)

(***************************************************************************)
(* Specification of the session lifecycle and of the load of the          *)
(* persisted history: recordTest, endSession, a new extension host, and    *)
(* storage that is lost or damaged outside the engine                      *)
(***************************************************************************)
\* recordTest calls in the session specification
MaxLoadRecords == 3

\* endSession calls in the session specification
MaxLoadSealed == 2

\* a stored session without its tests list
DropTests(session) == [f \in DOMAIN session \ {"tests"} |-> session[f]]

\* the storage after a fault: absent, one of its sessions without a tests
\* list, or a single session without a tests list
StorageFaults(st) ==
    {<<>>}
        \cup {<< <<DropTests(Serialize(<<NewSession(0, 0)>>)[1])>> >>}
        \cup (IF Len(st) > 0
              THEN {<<[st[1] EXCEPT ![i] = DropTests(@)]>> : i \in 1..Len(st[1])}
              ELSE {})

LRecord ==
    /\ constructed
    /\ nrecorded < MaxLoadRecords
    /\ \E dottedPath \in RecordPaths, status \in RecordStatuses :
           recordTest(dottedPath, status, 1)
    /\ UNCHANGED <<flakiness, runnerVars, watchVars, discVars, notifyVars>>

LEnd ==
    /\ constructed
    /\ nsealed < MaxLoadSealed
    /\ endSession
    /\ UNCHANGED <<flakiness, runnerVars, watchVars, discVars, notifyVars>>

\* a new extension host is started
LReload ==
    /\ loadHistory
    /\ UNCHANGED <<flakiness, runnerVars, watchVars, discVars, notifyVars>>

\* storage written by the engine is lost or damaged outside the engine
LFault ==
    /\ ~LoadThrows(stored)
    /\ \E st \in StorageFaults(stored) : st # stored /\ stored' = st
    /\ UNCHANGED <<sessions, currentSession, historyMaxSessions, constructed, now,
                   nextId, nrecorded, nsealed>>
    /\ UNCHANGED <<flakiness, runnerVars, watchVars, discVars, notifyVars>>

NextLoad ==
    \/ LRecord
    \/ LEnd
    \/ LReload
    \/ LFault

SpecLoad == InitDefault /\ [][NextLoad]_vars

\* C23: constructing the history engine always succeeds, and when the
\* persisted history is absent or malformed (a stored session without a tests
\* list) the engine starts with an empty session list
C23_LoadNeverFails ==
    [][LReload => /\ constructed'
                  /\ (Len(stored) = 0 \/ LoadThrows(stored)) => sessions' = <<>>]_vars

\* the identifiers of the sealed sessions
SessionIds(list) == {list[i].id : i \in 1..Len(list)}

\* C25: recordTest opens a new session exactly when none is open and otherwise
\* appends its record to the open one; endSession moves the open session to
\* the front of the history, leaves no session open and persists the history
C25_SessionLifecycle ==
    [][/\ nrecorded' = nrecorded + 1 =>
            /\ Len(currentSession') = 1
            /\ IF Len(currentSession) = 0
               THEN /\ currentSession'[1].id \notin SessionIds(sessions)
                    /\ Len(currentSession'[1].tests) = 1
                    /\ currentSession'[1].totalTests = 1
               ELSE /\ currentSession'[1].id = currentSession[1].id
                    /\ Len(currentSession'[1].tests) = Len(currentSession[1].tests) + 1
                    /\ SubSeq(currentSession'[1].tests, 1, Len(currentSession[1].tests))
                           = currentSession[1].tests
            /\ sessions' = sessions
            /\ stored' = stored
       /\ nsealed' = nsealed + 1 =>
            /\ Len(currentSession) = 1
            /\ currentSession' = <<>>
            /\ sessions'[1].id = currentSession[1].id
            /\ sessions'[1].tests = currentSession[1].tests
            /\ Len(sessions) < MAX_SESSIONS => Tail(sessions') = sessions
            /\ stored' = <<Serialize(sessions')>>]_vars

\* a session of two records was sealed, then a second session of one record,
\* which stands in front of it
C25_Witness ==
    /\ Len(sessions) = 2
    /\ Len(sessions[2].tests) = 2
    /\ Len(sessions[1].tests) = 1
    /\ Len(currentSession) = 0
    /\ stored = <<Serialize(sessions)>>

(***************************************************************************)
(* Specification of incremental discovery: longer sequences of discover,   *)
(* updateFile and removeFile over a workspace whose test file is edited    *)
(***************************************************************************)
\* discovery operations and file edits of the incremental specification
MaxIncOps == 3
MaxIncEdits == 1
\* discover and updateFile calls suspended at once in the incremental specification
MaxIncPending == 1

\* the file systems the incremental specification starts from
IncFileSystems == {fs \in FileSystems : fs[F_test_x].present}

InitIncremental ==
    /\ InitRunnerFrom({DefaultConfig}, <<>>) /\ InitWatch({TRUE})
    /\ InitHistory({MAX_SESSIONS}) /\ InitDisc(IncFileSystems) /\ InitNotify

\* another call may be made: fewer than MaxIncOps were made and fewer than
\* MaxIncPending are suspended
IncCall == DiscCalls < MaxIncOps /\ Len(scans) + Len(reading) < MaxIncPending

IDiscover == IncCall /\ discover /\ UNCHANGED <<failureMessages, discFrame>>

IUpdateFile ==
    /\ IncCall
    /\ \E uri \in WatchedPaths : updateFile(uri)
    /\ UNCHANGED <<failureMessages, discFrame>>

IUpdateDecorations ==
    /\ IncCall
    /\ \E uri \in DecoratedPaths : updateDecorations(uri)
    /\ UNCHANGED <<failureMessages, discFrame>>

IRemoveFile ==
    /\ DiscCalls < MaxIncOps
    /\ \E uri \in WatchedPaths : removeFile(uri)
    /\ UNCHANGED <<failureMessages, discFrame>>

IEditFile ==
    /\ nenv < MaxIncEdits
    /\ \E uri \in EditedPaths : \E file \in Edits : editFile(uri, file)
    /\ UNCHANGED <<failureMessages, discFrame>>

NextIncremental ==
    \/ IDiscover
    \/ DFilesFound
    \/ DFileRead
    \/ DParseFileReturns
    \/ DDiscoverResumes
    \/ IUpdateFile
    \/ DReadServed
    \/ DParseFileReturned
    \/ DUpdateFileResumes
    \/ IUpdateDecorations
    \/ DParseFileResumes
    \/ IRemoveFile
    \/ IEditFile

SpecIncremental == InitIncremental /\ [][NextIncremental]_vars

(***************************************************************************)
(* Specification of overlapping discovery calls: a workspace of two test   *)
(* files, one of which is edited, with calls made while others are         *)
(* suspended                                                               *)
(***************************************************************************)
MaxOverlapOps == 3
MaxOverlapPending == 2
MaxOverlapEdits == 1

OverlapFileSystems ==
    {[p \in DiscPaths |-> IF p \in {F_test_x, F_tests_t} THEN File(K_one) ELSE Absent]}

InitOverlap ==
    /\ InitRunnerFrom({DefaultConfig}, <<>>) /\ InitWatch({TRUE})
    /\ InitHistory({MAX_SESSIONS}) /\ InitDisc(OverlapFileSystems) /\ InitNotify

OverlapCall == DiscCalls < MaxOverlapOps /\ Len(scans) + Len(reading) < MaxOverlapPending

ODiscover == OverlapCall /\ discover /\ UNCHANGED <<failureMessages, discFrame>>

OUpdateFile ==
    /\ OverlapCall
    /\ \E uri \in EditedPaths : updateFile(uri)
    /\ UNCHANGED <<failureMessages, discFrame>>

OUpdateDecorations ==
    /\ OverlapCall
    /\ \E uri \in DecoratedPaths : updateDecorations(uri)
    /\ UNCHANGED <<failureMessages, discFrame>>

ORemoveFile ==
    /\ DiscCalls < MaxOverlapOps
    /\ \E uri \in EditedPaths : removeFile(uri)
    /\ UNCHANGED <<failureMessages, discFrame>>

OEditFile ==
    /\ nenv < MaxOverlapEdits
    /\ \E uri \in EditedPaths : \E file \in Edits : editFile(uri, file)
    /\ UNCHANGED <<failureMessages, discFrame>>

NextOverlap ==
    \/ ODiscover
    \/ DFilesFound
    \/ DFileRead
    \/ DParseFileReturns
    \/ DDiscoverResumes
    \/ OUpdateFile
    \/ DReadServed
    \/ DParseFileReturned
    \/ DUpdateFileResumes
    \/ OUpdateDecorations
    \/ DParseFileResumes
    \/ ORemoveFile
    \/ OEditFile

SpecOverlap == InitOverlap /\ [][NextOverlap]_vars

(***************************************************************************)
(* Further properties of discovery                                         *)
(***************************************************************************)
\* C24: after a discover() that matched no file the hierarchy returned is
\* empty and the engine keeps no file subtree, so that no later updateFile or
\* removeFile can return a file of an earlier discovery
C24_EmptyDiscovery ==
    (discLast.op = "discover" /\ discLast.read.files = {}) =>
        /\ hierarchy = <<>>
        /\ fileNodes = <<>>

\* the test groups and cases the texts of the workspace declare, relative to
\* the identifier of their file
ExpectedTests(file) ==
    IF ~file.present THEN {}
    ELSE IF file.text = K_two
    THEN {<<"T", "e", "s", "t", "B">>, <<"T", "e", "s", "t", "B", ".", "t", "e", "s", "t", "_", "b">>, <<"T", "e", "s", "t", "B", ".", "t", "e", "s", "t", "_", "a">>,
          <<"H", "x">>, <<"H", "x", ".", "t", "e", "s", "t", "_", "a">>}
    ELSE IF file.text \in {K_one, K_dup}
    THEN {<<"T", "e", "s", "t", "A">>, <<"T", "e", "s", "t", "A", ".", "t", "e", "s", "t", "_", "a">>}
    ELSE {}

\* the file nodes of a hierarchy made for the file uri, in order
FileNodesOf(nodes, uri) ==
    SelectSeq(Flatten(nodes), LAMBDA n : n.type = "file" /\ n.uri = uri)

\* C26: after updateFile(f) the hierarchy holds for f exactly the test groups
\* and cases of the text of f the call read (no subtree when the text has no
\* test group or the file cannot be read), and the subtree of every other file
\* is what it was in the hierarchy returned last before
C26_IncrementalUpdate ==
    discLast.op = "updateFile" =>
        /\ \E own \in {FileNodesOf(hierarchy, discLast.uri)} :
               IF ExpectedTests(discLast.read.fs[discLast.uri]) = {}
               THEN own = <<>>
               ELSE /\ Len(own) = 1
                    /\ TreeIds(own[1].children)
                          = {FileDottedPath(discLast.uri) \o <<".">> \o e :
                                e \in ExpectedTests(discLast.read.fs[discLast.uri])}
        /\ \A g \in DiscPaths \ {discLast.uri} :
               FileNodesOf(hierarchy, g) = FileNodesOf(discLast.prev.hierarchy, g)

(***************************************************************************)
(* Run failed tests                                                        *)
(***************************************************************************)
\* the identifiers whose record in st is failed
FailedIn(st) == {k \in KeySet(st) : getStatus(st, k) = "failed"}

\* C27: runFailedTests starts a run only when some identifier is failed; the
\* run targets exactly the identifiers that were failed at the call, exactly
\* those are set to pending and every other record is unchanged
C27_RunFailedTests ==
    last.op = "runFailed" =>
        /\ FailedIn(last.snap) # {}
        /\ last.pending = FailedIn(last.snap)
        /\ \A p \in procs : p.run = last.run =>
               {SplitOn(p.cmd.testPath, " ")[i] :
                    i \in 1..Len(SplitOn(p.cmd.testPath, " "))} = FailedIn(last.snap)
        /\ KeySet(statuses) = KeySet(last.snap)
        /\ \A k \in KeySet(last.snap) :
               getStatus(statuses, k) = IF k \in FailedIn(last.snap) THEN "pending"
                                         ELSE getStatus(last.snap, k)

\* runFailedTests ran while two records were failed and another was not
C27_Witness ==
    /\ last.op = "runFailed"
    /\ Cardinality(FailedIn(last.snap)) = 2
    /\ KeySet(last.snap) # FailedIn(last.snap)
    /\ \E p \in procs : p.run = last.run

(***************************************************************************)
(* Further properties of the parser                                        *)
(***************************************************************************)
\* C28: onData only appends its chunk to the buffer and does no line-level
\* work; each tick and the final parse of the exit callback take from the
\* buffer exactly the text up to and including its last newline and hand it
\* to the parser in order, so that the text parsed followed by the buffer
\* left is the buffer before: nothing is lost, duplicated or reordered
C28_BufferConservation ==
    [][/\ last'.op = "data" =>
            /\ Len(parsingBuffer') > Len(parsingBuffer)
            /\ SubSeq(parsingBuffer', 1, Len(parsingBuffer)) = parsingBuffer
            /\ statuses' = statuses
            /\ failureMessages' = failureMessages
            /\ parsingTestPath' = parsingTestPath
       /\ last'.op \in {"tick", "exit"} =>
            /\ last'.text \o parsingBuffer' = parsingBuffer
            /\ \A i \in 1..Len(parsingBuffer') : parsingBuffer'[i] # "\n"
            /\ Len(last'.text) > 0 => last'.text[Len(last'.text)] = "\n"]_vars

\* a tick or the exit callback parsed a complete line and left the incomplete
\* line that followed it in the buffer
C28_Witness ==
    /\ last.op \in {"tick", "exit"}
    /\ Len(last.text) > 0
    /\ Len(parsingBuffer) > 0
    /\ fed = 2

\* the complete lines of a text handed to parseResults
LinesOf(text) == SelectSeq(SplitLines(text), LAMBDA l : Len(l) > 0)

\* the suite-level lines of the transcript
SuiteLines == {SuiteOk, SuiteFailed}

\* C29: when the watched node has no children, a suite-level line carrying
\* the failure-count marker leaves the node failed and a suite-level line that
\* is the bare success marker leaves it passed (the line is the last one of
\* the batch parsed); when the node has children, a batch of suite-level lines
\* changes no status
C29_SuiteLevelMarkers ==
    [][(last'.op \in {"tick", "exit"} /\ Len(LinesOf(last'.text)) > 0) =>
          LET lines  == LinesOf(last'.text)
              after  == IF last'.op = "exit" THEN last'.snap ELSE statuses'
              target == last'.node
          IN  /\ (/\ Len(target.children) = 0
                  /\ Len(target.dottedPath) > 0
                  /\ lines[Len(lines)] \in SuiteLines) =>
                     getStatus(after, target.dottedPath) =
                         IF lines[Len(lines)] = SuiteFailed THEN "failed" ELSE "passed"
              /\ (/\ Len(target.children) > 0
                  /\ \A i \in 1..Len(lines) : lines[i] \in SuiteLines) => after = statuses]_vars

\* the lines of the transcript that are neither a test-start line, a
\* result-marker line, a FAIL:/ERROR: summary line nor a suite-level line
UnrecognisedLines == {MigrationLine, RanLine}

\* C30: a batch of lines that are neither test-start lines, result-marker
\* lines, FAIL:/ERROR: summary lines nor suite-level lines leaves every
\* status, every failure message and the pending-identifier register unchanged
C30_UnrecognisedLines ==
    [][(/\ last'.op \in {"tick", "exit"}
        /\ Len(LinesOf(last'.text)) > 0
        /\ \A i \in 1..Len(LinesOf(last'.text)) :
               LinesOf(last'.text)[i] \in UnrecognisedLines) =>
          /\ (IF last'.op = "exit" THEN last'.snap ELSE statuses') = statuses
          /\ failureMessages' = failureMessages
          /\ parsingTestPath' = parsingTestPath]_vars

(***************************************************************************)
(* Specification of chunking: one run whose process writes one of the      *)
(* transcripts below, cut into chunks at any position, while the parsing   *)
(* tick runs between the chunks                                            *)
(***************************************************************************)
\* the transcripts a process writes: a migration line and a failing test; the
\* docstring form of a passing test; a failing test and its summary line
Transcripts == {
    MigrationLine \o NL \o TranscriptLine(W_t2, P_T, W_FAIL) \o NL,
    StartOnlyLine \o NL \o ResultOnlyLine \o NL,
    TranscriptLine(W_t2, P_T, W_FAIL) \o NL \o SummaryLine(W_FAIL, W_t2, P_t2) \o NL }

\* what a process of procs has written so far
OutOf(p) == IF "out" \in DOMAIN p THEN p.out ELSE <<>>

\* the onData callback of runCommand for a process that writes a transcript:
\* the next chunk, of any length, is appended to the buffer
ChunkData ==
    /\ \E p \in procs, t \in Transcripts :
           \E n \in 1..(Len(t) - Len(OutOf(p))) :
               /\ Sub(t, 1, Len(OutOf(p))) = OutOf(p)
               /\ parsingBuffer' = parsingBuffer \o Sub(t, Len(OutOf(p)) + 1, Len(OutOf(p)) + n)
               /\ procs' = (procs \ {p}) \cup
                              {[run |-> p.run, cmd |-> p.cmd, node |-> p.node,
                                pending |-> p.pending, out |-> Sub(t, 1, Len(OutOf(p)) + n)]}
    /\ last' = Op("data", 0, NoNode, 0, <<>>, <<>>, {})
    /\ fed' = fed + 1
    /\ UNCHANGED <<statuses, failureMessages, parsingTestPath, isParsing, parsingInterval,
                   djangoTerminal, terminal, isRunning, config, nruns, cancelTimers, sigints,
                   calls>>
    /\ UNCHANGED <<watchVars, histVars, discVars, notifyVars>>

NextChunking ==
    \/ ParseRun
    \/ RunInTerminalResumes
    \/ ChunkData
    \/ Tick
    \/ OnExit

SpecChunking == InitDefault /\ [][NextChunking]_vars

\* the statuses runInTerminal leaves when it starts the run of node on the
\* discovered hierarchy
ResetStatuses(node) ==
    IF Len(node.dottedPath) = 0 THEN SetPendingEach(Roots, DiscoveredStatuses)
    ELSE setPendingRecursive(node, DiscoveredStatuses)

\* the statuses after the exit callback when the whole output arrived as one
\* chunk and no tick parsed any of it
UnchunkedRun(out, node, code) ==
    \* one flush of the whole output, then the finalization
    LET Flushed(r) == finalizeNodeStatus(node, code = 0, config, r.st)
    IN  Flushed(processParsingBuffer(node, FALSE, out, ResetStatuses(node), <<>>, <<>>))

\* C31: for a fixed transcript, target and exit code, the statuses after the
\* exit callback are those of the run that received the transcript as one
\* chunk, however the transcript was cut into chunks and wherever the parsing
\* ticks fell between them
C31_ChunkingIndependence ==
    [][last'.op = "exit" =>
          \A p \in procs \ procs' :
              statuses' = UnchunkedRun(OutOf(p), p.node, last'.code)]_vars

(***************************************************************************)
(* Further properties of the output parser                                 *)
(***************************************************************************)
\* the FAIL:/ERROR: summary lines of Chunks and the identifier each one names
SummaryLines ==
    {[line |-> SummaryLine(W_ERROR, W_t1, P_T), id |-> P_t1],
     [line |-> SummaryLine(W_FAIL, W_t2, P_t2), id |-> P_t2]}

\* C32: a FAIL:/ERROR: summary line leaves the pending-identifier register as
\* it found it, and a line that carries only a result marker and follows the
\* summary line does not change the status failed of the identifier the
\* summary line named
C32_SummaryKeepsRegister ==
    [][(last'.op \in {"tick", "exit"} /\ Len(LinesOf(last'.text)) > 0) =>
          LET lines == LinesOf(last'.text)
              after == IF last'.op = "exit" THEN last'.snap ELSE statuses'
          IN  \A s \in SummaryLines :
                  /\ lines = <<s.line>> => parsingTestPath' = parsingTestPath
                  /\ lines = <<s.line, ResultOnlyLine>> => getStatus(after, s.id) = "failed"]_vars

(***************************************************************************)
(* Further properties of cancellation                                      *)
(***************************************************************************)
\* C33: the context key djangoTestManager.isRunning is true in every state
\* in which a process started by the runner has not yet exited
C33_RunningFlag == procs # {} => isRunning

(***************************************************************************)
(* Further properties of watch mode                                        *)
(***************************************************************************)
\* C34: while watch mode is disabled the watch engine starts no test run,
\* also when disable() was called while a drained batch was being processed
C34_NoRunWhileDisabled == [][~isEnabled => nruns' = nruns]_vars

(***************************************************************************)
(* Specification of the runs of watch mode: the batches of watch mode, the *)
(* output and the exits of the runs they start                             *)
(***************************************************************************)
NextWatchRuns ==
    \/ Enable
    \/ Dispose
    \/ OnFileChange
    \/ DebounceFire
    \/ FindFilesAnswers
    \/ WatchRunResumes
    \/ OnData
    \/ OnExit

SpecWatchRuns == InitWatchMode /\ [][NextWatchRuns]_vars

\* C35: when a drained batch holds several changed files, the watch engine
\* starts the run of the next file only after the exit callback of the
\* previous run has fired, so that no run in flight has its buffer, register
\* and parsing tick reset by another run of the batch (the step starts a run
\* of the only batch in flight, which started every run so far)
C35_WatchRunsSerialized ==
    [][(/\ Len(batches) = 1
        /\ batches[1].runs >= 1
        /\ batches[1].runs = nruns
        /\ nruns' = nruns + 1) =>
          /\ procs = {}
          /\ ~parsingInterval.active]_vars

(***************************************************************************)
(* Specification of the watcher of activate: create, change and delete     *)
(* events on test files, the debounced updateFile and its file read        *)
(***************************************************************************)
\* watcher events and file edits of the watcher specification
MaxWatchEvents == 3
MaxAutoEdits == 1

\* the test files the events are about, and the file systems at activation
AutoPaths == {F_test_x, F_tests_t}
AutoFileSystems == {fs \in FileSystems : \A uri \in AutoPaths : fs[uri].present}

\* what the watcher leaves alone
autoFrame == <<failureMessages, parsingBuffer, parsingTestPath, isParsing, parsingInterval,
               djangoTerminal, terminal, isRunning, config, procs, nruns, fed, cancelTimers,
               sigints, calls, last, watchVars, histVars, notifyVars>>

InitAuto ==
    /\ InitRunnerFrom({DefaultConfig}, <<>>) /\ InitWatch({TRUE})
    /\ InitHistory({MAX_SESSIONS}) /\ InitDisc(AutoFileSystems) /\ InitNotify

\* the user saves or deletes a test file; the watcher will report a deletion
AutoEdit ==
    /\ nenv < MaxAutoEdits
    /\ \E uri \in AutoPaths : \E file \in Edits :
           /\ editFile(uri, file)
           /\ gone' = IF file.present THEN gone ELSE gone \cup {uri}
    /\ UNCHANGED <<updateTimeout, unserved, deleted, nwatch, autoFrame>>

\* TestTreeDataProvider.updateFile and removeFile, which the watcher calls: they
\* hand the uri to TestDiscovery
TestTreeDataProvider_updateFile(uri) == updateFile(uri)

TestTreeDataProvider_removeFile(uri) == removeFile(uri)

\* debounce(func, 500): the returned function called with uri
debouncedUpdate(uri) == updateTimeout' = <<uri>>

\* watcher.onDidCreate and watcher.onDidChange
OnDidChange ==
    /\ nwatch < MaxWatchEvents
    /\ \E uri \in AutoPaths :
           /\ fsFiles[uri].present
           /\ debouncedUpdate(uri)
           /\ unserved' = unserved \cup {uri}
           /\ deleted' = deleted \ {uri}
           /\ discLast' = DiscOp("change", uri, statuses, NoDiscovery, NoRead)
    /\ nwatch' = nwatch + 1
    /\ UNCHANGED <<statuses, fsFiles, fileNodes, dottedPathCache, hierarchy, discPrev, ndisc,
                   scans, reading, nenv, gone, autoFrame>>

\* watcher.onDidDelete: the watcher delivers the delete event of a file that was
\* deleted, whether or not the file exists again, and the handler calls
\* testTreeDataProvider.removeFile(uri)
OnDidDelete ==
    /\ nwatch < MaxWatchEvents
    /\ \E uri \in gone :
           /\ TestTreeDataProvider_removeFile(uri)
           /\ deleted' = deleted \cup {uri}
           /\ gone' = gone \ {uri}
    /\ nwatch' = nwatch + 1
    /\ UNCHANGED <<updateTimeout, unserved, autoFrame>>

\* the timeout of debounce fires: updateFile(uri) up to its file read
DebounceFires ==
    /\ Len(updateTimeout) > 0
    /\ updateTimeout' = <<>>
    /\ TestTreeDataProvider_updateFile(updateTimeout[1])
    /\ unserved' = unserved \ {updateTimeout[1]}
    /\ UNCHANGED <<deleted, gone, nwatch, autoFrame>>

\* the file system serves the read of a suspended parseFile
ReadServed ==
    /\ \E i \in 1..Len(reading) : readServed(i)
    /\ UNCHANGED <<autoVars, autoFrame>>

\* the parseFile of a suspended updateFile whose read was served returns
ParseFileReturned ==
    /\ \E i \in 1..Len(reading) : parseFileReturned(i)
    /\ UNCHANGED <<autoVars, autoFrame>>

\* a suspended updateFile whose parseFile has returned resumes
UpdateFileResumes ==
    /\ \E i \in 1..Len(reading) : updateFileResumed(i)
    /\ UNCHANGED <<autoVars, autoFrame>>

\* the active editor changes or the tree is refreshed: updateDecorations
AutoDecorations ==
    /\ nwatch < MaxWatchEvents
    /\ \E uri \in DecoratedPaths : updateDecorations(uri)
    /\ nwatch' = nwatch + 1
    /\ UNCHANGED <<updateTimeout, unserved, deleted, gone, autoFrame>>

\* the parseFile of updateDecorations whose read was served resumes
ParseFileResumes ==
    /\ \E i \in 1..Len(reading) : parseFileResumed(i)
    /\ UNCHANGED <<autoVars, autoFrame>>

NextAuto ==
    \/ AutoEdit
    \/ OnDidChange
    \/ OnDidDelete
    \/ DebounceFires
    \/ ReadServed
    \/ ParseFileReturned
    \/ UpdateFileResumes
    \/ AutoDecorations
    \/ ParseFileResumes

SpecAuto == InitAuto /\ [][NextAuto]_vars

\* the step of UpdateFileResumes and of ParseFileResumes as the suspended calls
\* see it: a call whose read was served leaves the suspended calls, an updateFile
\* after its parseFile has returned
Resumed ==
    \E i \in 1..Len(reading) : Len(reading[i].content) > 0 /\ reading' = RemoveAt(reading, i)

\* timers fire, reads are served and the calls whose read was served resume
SpecAutoFair ==
    SpecAuto /\ WF_vars(DebounceFires) /\ WF_vars(ReadServed) /\ WF_reading(Resumed)

\* C36: every create or change event on a test file is eventually followed by
\* an updateFile of that file, also when events for several files arrive
\* within one debounce window
C36_EveryChangeUpdated ==
    \A uri \in AutoPaths : (uri \in unserved) ~> (uri \notin unserved)

\* C37: after a delete event for a file that no create or change event
\* follows, the engine eventually holds no subtree for the file and never
\* holds one again
C37_DeletedStaysDeleted ==
    \A uri \in AutoPaths : <>[](uri \in deleted) => <>[](~MapHas(fileNodes, uri))

(***************************************************************************)
(* Specification of a long run: the outcomes of one run of more tests than *)
(* a session keeps are recorded and the session is sealed                  *)
(***************************************************************************)
\* recordTest calls of the run, and the calls whose status is any status
MaxRunRecords == 1001
MaxRunVaried == 1
\* endSession calls of the long-run specification
MaxRunSealed == 1

\* the statuses of a TestRunRecord
RunRecordStatuses == {"passed", "failed", "skipped", "error"}

RunRecord ==
    /\ nrecorded < MaxRunRecords
    /\ nsealed < MaxRunSealed
    /\ \E status \in (IF nrecorded < MaxRunVaried THEN RunRecordStatuses ELSE {"passed"}) :
           recordTest(P_t1, status, 1)
    /\ UNCHANGED <<flakiness, runnerVars, watchVars, discVars, notifyVars>>

RunSealed ==
    /\ nsealed < MaxRunSealed
    /\ endSession
    /\ UNCHANGED <<flakiness, runnerVars, watchVars, discVars, notifyVars>>

NextLongRun ==
    \/ RunRecord
    \/ RunSealed

SpecLongRun == InitDefault /\ [][NextLongRun]_vars

\* the sessions the engine holds, open or sealed
HeldSessions == {sessions[i] : i \in 1..Len(sessions)} \cup
                {currentSession[i] : i \in 1..Len(currentSession)}

\* C38: in every session, open or sealed, passed + failed + skipped =
\* totalTests and totalTests is the number of test-run records the session holds
C38_SessionCounts ==
    \A s \in HeldSessions :
        /\ s.passed + s.failed + s.skipped = s.totalTests
        /\ s.totalTests = Len(s.tests)

(***************************************************************************)
(* Specification of the session calls: startSession, recordTest and        *)
(* endSession in any order                                                 *)
(***************************************************************************)
\* recordTest and endSession calls, and identifiers drawn by generateId
MaxCallRecords == 2
MaxCallSealed == 2
MaxCallIds == 5

\* startSession(), with or without an open session
CallStart ==
    /\ nextId < MaxCallIds
    /\ startSession
    /\ UNCHANGED <<flakiness, runnerVars, watchVars, discVars, notifyVars>>

CallRecord ==
    /\ nrecorded < MaxCallRecords
    /\ \E dottedPath \in RecordPaths, status \in RecordStatuses :
           recordTest(dottedPath, status, 1)
    /\ UNCHANGED <<flakiness, runnerVars, watchVars, discVars, notifyVars>>

CallEnd ==
    /\ nsealed < MaxCallSealed
    /\ endSession
    /\ UNCHANGED <<flakiness, runnerVars, watchVars, discVars, notifyVars>>

NextCalls ==
    \/ CallStart
    \/ CallRecord
    \/ CallEnd

SpecCalls == InitDefault /\ [][NextCalls]_vars

\* the identifiers of the test-run records of a session
RecordIds(s) == {s.tests[j].id : j \in 1..Len(s.tests)}

\* the identifiers of the records held by the sealed sessions list and the
\* open session cur
IdsHeld(list, cur) ==
    UNION ({RecordIds(list[i]) : i \in 1..Len(list)} \cup
           {RecordIds(cur[i]) : i \in 1..Len(cur)})

\* C39: no call of startSession, recordTest or endSession loses a recorded
\* outcome: a record held by the open session or by a sealed session is held
\* after the call as well, unless it belongs to a sealed session the call
\* evicted; after endSession every record held is in a sealed session
C39_NoOutcomeLost ==
    [][LET evicted == {i \in 1..Len(sessions) :
                          \A k \in 1..Len(sessions') : sessions'[k].id # sessions[i].id}
       IN  IdsHeld(sessions, currentSession) \ IdsHeld(sessions', currentSession')
               \subseteq UNION {RecordIds(sessions[i]) : i \in evicted}]_vars

(***************************************************************************)
(* The statuses of the records                                             *)
(***************************************************************************)
\* type TestStatus
TestStatus == {"pending", "running", "passed", "failed", "skipped", "aborted", "unknown"}

\* C40: no record ever has the status running or aborted: every status written
\* by discovery, the reset of a run, the output parser, finalization and
\* cancel is one of unknown, pending, passed, failed, skipped
C40_NoRunningNoAborted ==
    \A i \in 1..Len(statuses) : statuses[i].val \in TestStatus \ {"running", "aborted"}

\* the exit of a cancelled run: discovery registered the records, the run
\* reset them, the parser resolved one, cancel skipped the others and the
\* exit callback finalized the run
C40_Witness ==
    /\ last.op = "exit"
    /\ sigints > 0
    /\ \E i \in 1..Len(statuses) : statuses[i].val = "skipped"
    /\ \E i \in 1..Len(statuses) : statuses[i].val \in {"passed", "failed"}
    /\ \A id \in last.pending : getStatus(statuses, id) # "pending"
====
